---- MODULE Spec2Model ----
(***************************************************************************)
(* Runtime instance engine of ontoforge_server: property coercion and      *)
(* validation (runtime/service.py) and the entity / relation instance      *)
(* store (runtime/service.py over runtime/repository.py).                  *)
(*                                                                         *)
(* Keys (type keys, property keys, request-body keys) are sequences of     *)
(* one-character strings, so that the naming conventions are computed on   *)
(* the characters.  JSON and stored values are records [k, n, s]: k is the *)
(* kind, n the numeric payload, s the textual payload.                     *)
(***************************************************************************)
EXTENDS Integers, Sequences, FiniteSets, TLC

VARIABLES
    entities,    \* _Entity nodes: id -> [typeKey, label, updatedAt, props]
    relations,   \* relationships: id -> [typeKey, relType, from, to, updatedAt, props]
    nextEntity,  \* number of entity identifiers handed out so far (uuid4 never repeats)
    nextRelation,\* number of relation identifiers handed out so far
    schema,      \* the ontology's schema as stored by the modeling service
    deletedIds,  \* history: identifiers whose delete succeeded
    vpIn,        \* validate_properties under test: its arguments
    vpOut,       \* validate_properties under test: its result
    embeddings,  \* the similarity vectors stored on entity nodes: id -> vector
    call,        \* a query helper under test: its arguments
    result       \* a query helper under test: what it returned

vars == <<entities, relations, nextEntity, nextRelation, deletedIds, schema, vpIn, vpOut,
          embeddings, call, result>>

\* ------------------------------------------------------------------------
\* Values
\* ------------------------------------------------------------------------

JNull == [k |-> "null", n |-> 0, s |-> ""]
JBool(b) == [k |-> "bool", n |-> IF b THEN 1 ELSE 0, s |-> ""]
JInt(i) == [k |-> "int", n |-> i, s |-> ""]
\* a float is kept in tenths: 4.5 is JFloat(45)
JFloat(t) == [k |-> "float", n |-> t, s |-> ""]
JStr(str) == [k |-> "str", n |-> 0, s |-> str]
JList == [k |-> "list", n |-> 0, s |-> ""]
\* neo4j.time.Date(year, month, day): n is year*10000 + month*100 + day
NeoDate(ymd) == [k |-> "date", n |-> ymd, s |-> ""]
\* neo4j.time.DateTime: n is the date as above, s the time of day
NeoDateTime(ymd, hms) == [k |-> "datetime", n |-> ymd, s |-> hms]

DOM(f) == DOMAIN f

EmptyMap == [x \in {} |-> JNull]

\* ------------------------------------------------------------------------
\* Python built-ins used by coerce_value, on the strings of the model
\* ------------------------------------------------------------------------

\* int(s) succeeds
IntParses(str) == str \in {"42", "7"}
IntOfStr(str) == CASE str = "42" -> 42 [] str = "7" -> 7 [] OTHER -> 0

\* float(s) succeeds; the result is in tenths
FloatParses(str) == str \in {"42", "7", "4.5"}
FloatOfStr(str) == CASE str = "42" -> 420 [] str = "7" -> 70 [] str = "4.5" -> 45 [] OTHER -> 0

\* s.lower()
Lower(str) == CASE str = "TRUE" -> "true" [] str = "False" -> "false" [] OTHER -> str

\* date.fromisoformat(s) succeeds
DateParses(str) == str \in {"2024-01-01"}
DateOfStr(str) == CASE str = "2024-01-01" -> 20240101 [] OTHER -> 0

\* datetime.fromisoformat(s) succeeds (a bare date is midnight)
DateTimeParses(str) == str \in {"2024-01-01", "2024-01-01T10:00:00"}
DateTimeDate(str) == CASE str \in {"2024-01-01", "2024-01-01T10:00:00"} -> 20240101 [] OTHER -> 0
DateTimeTime(str) == CASE str = "2024-01-01T10:00:00" -> "10:00:00" [] OTHER -> "00:00:00"

\* str(value)
PyStr(v) ==
    CASE v.k = "str" -> v.s
      [] v.k = "bool" -> IF v.n = 1 THEN "True" ELSE "False"
      [] v.k = "int" -> (CASE v.n = 42 -> "42" [] v.n = 7 -> "7" [] OTHER -> "0")
      [] v.k = "float" -> (CASE v.n = 45 -> "4.5" [] v.n = 420 -> "42.0" [] OTHER -> "0.0")
      [] OTHER -> "[]"

\* ------------------------------------------------------------------------
\* Type coercion
\* ------------------------------------------------------------------------

DataTypes == {"string", "integer", "float", "boolean", "date", "datetime"}

Ok(v) == [ok |-> TRUE, val |-> v]
\* ValueError raised by coerce_value
Fail == [ok |-> FALSE, val |-> JNull]

coerce_value(value, data_type) ==
    IF value = JNull THEN Ok(JNull)
    ELSE CASE data_type = "string" -> Ok(JStr(PyStr(value)))
           [] data_type = "integer" ->
                IF value.k = "bool" THEN Fail
                ELSE IF value.k = "int" THEN Ok(value)
                ELSE IF value.k = "str"
                     THEN IF IntParses(value.s) THEN Ok(JInt(IntOfStr(value.s))) ELSE Fail
                ELSE Fail
           [] data_type = "float" ->
                IF value.k = "bool" THEN Fail
                ELSE IF value.k = "int" THEN Ok(JFloat(value.n * 10))
                ELSE IF value.k = "float" THEN Ok(value)
                ELSE IF value.k = "str"
                     THEN IF FloatParses(value.s) THEN Ok(JFloat(FloatOfStr(value.s))) ELSE Fail
                ELSE Fail
           [] data_type = "boolean" ->
                IF value.k = "bool" THEN Ok(value)
                ELSE IF value.k = "str"
                     THEN IF Lower(value.s) = "true" THEN Ok(JBool(TRUE))
                          ELSE IF Lower(value.s) = "false" THEN Ok(JBool(FALSE))
                          ELSE Fail
                ELSE Fail
           [] data_type = "date" ->
                IF value.k = "str"
                THEN IF DateParses(value.s) THEN Ok(NeoDate(DateOfStr(value.s))) ELSE Fail
                ELSE Fail
           [] data_type = "datetime" ->
                IF value.k = "str"
                THEN IF DateTimeParses(value.s)
                     THEN Ok(NeoDateTime(DateTimeDate(value.s), DateTimeTime(value.s)))
                     ELSE Fail
                ELSE Fail
           [] OTHER -> Fail

\* ------------------------------------------------------------------------
\* Property validation
\* ------------------------------------------------------------------------

\* PropertyDef: the fields validate_properties reads; default_value is JNull or a JStr
PropertyDef(dt, req, dflt) == [data_type |-> dt, required |-> req, default_value |-> dflt]

ErrUnknown == "Unknown property"
ErrNullRequired == "Cannot set required property to null"
ErrMissing == "Required property missing"
ErrCoerce == "Expected value of the declared type"

NoOutcome == [c |-> <<>>, e |-> <<>>]
Coerced(v) == [c |-> <<v>>, e |-> <<>>]
Error(m) == [c |-> <<>>, e |-> <<m>>]

\* try: coerced[key] = coerce_value(v, data_type, key) / except ValueError: errors[key] = str(e)
TryCoerce(v, dt) ==
    IF coerce_value(v, dt).ok THEN Coerced(coerce_value(v, dt).val) ELSE Error(ErrCoerce)

\* PropOutcome with a slip: on create a default is injected for an absent
\* property whether or not the property is required
PropOutcome_DefaultForOptional(properties, prop_key, prop_def, partial) ==
    IF prop_key \in DOM(properties)
    THEN IF properties[prop_key] = JNull
         THEN IF partial
              THEN IF prop_def.required THEN Error(ErrNullRequired) ELSE Coerced(JNull)
              ELSE IF prop_def.required /\ prop_def.default_value = JNull
                   THEN Error(ErrMissing)
                   ELSE IF prop_def.default_value # JNull
                        THEN TryCoerce(prop_def.default_value, prop_def.data_type)
                        ELSE NoOutcome
         ELSE TryCoerce(properties[prop_key], prop_def.data_type)
    ELSE IF ~partial
         THEN IF prop_def.default_value # JNull
              THEN TryCoerce(prop_def.default_value, prop_def.data_type)
              ELSE IF prop_def.required THEN Error(ErrMissing) ELSE NoOutcome
         ELSE NoOutcome

\* PropOutcome with a slip: on update a null is taken as a removal without
\* looking at whether the property is required
PropOutcome_NullRemovesRequired(properties, prop_key, prop_def, partial) ==
    IF prop_key \in DOM(properties)
    THEN IF properties[prop_key] = JNull
         THEN IF partial
              THEN Coerced(JNull)
              ELSE IF prop_def.required /\ prop_def.default_value = JNull
                   THEN Error(ErrMissing)
                   ELSE IF prop_def.default_value # JNull
                        THEN TryCoerce(prop_def.default_value, prop_def.data_type)
                        ELSE NoOutcome
         ELSE TryCoerce(properties[prop_key], prop_def.data_type)
    ELSE IF ~partial
         THEN IF prop_def.required
              THEN IF prop_def.default_value # JNull
                   THEN TryCoerce(prop_def.default_value, prop_def.data_type)
                   ELSE Error(ErrMissing)
              ELSE NoOutcome
         ELSE NoOutcome

\* one iteration of the loop over property_defs.items()
PropOutcome(properties, prop_key, prop_def, partial) ==
    IF prop_key \in DOM(properties)
    THEN IF properties[prop_key] = JNull
         THEN IF partial
              THEN IF prop_def.required THEN Error(ErrNullRequired) ELSE Coerced(JNull)
              ELSE IF prop_def.required /\ prop_def.default_value = JNull
                   THEN Error(ErrMissing)
                   ELSE IF prop_def.default_value # JNull
                        THEN TryCoerce(prop_def.default_value, prop_def.data_type)
                        ELSE NoOutcome
         ELSE TryCoerce(properties[prop_key], prop_def.data_type)
    ELSE IF ~partial
         THEN IF prop_def.required
              THEN IF prop_def.default_value # JNull
                   THEN TryCoerce(prop_def.default_value, prop_def.data_type)
                   ELSE Error(ErrMissing)
              ELSE NoOutcome
         ELSE NoOutcome

\* validate_properties with a slip: it stops at the first violation it meets
validate_properties_FailFast(properties, property_defs, partial) ==
    LET out(k) == PropOutcome(properties, k, property_defs[k], partial)
        unknown == DOM(properties) \ DOM(property_defs)
        bad == {k \in DOM(property_defs) : out(k).e # <<>>}
        first == IF unknown \cup bad = {} THEN {} ELSE {CHOOSE k \in unknown \cup bad : TRUE}
    IN  [coerced |-> [k \in {k \in DOM(property_defs) : out(k).c # <<>>} |-> out(k).c[1]],
         errors  |-> [k \in first |-> IF k \in unknown THEN ErrUnknown ELSE out(k).e[1]]]

\* (coerced, errors): the unknown-key loop, then the loop over property_defs
validate_properties(properties, property_defs, partial) ==
    LET out(k) == PropOutcome(properties, k, property_defs[k], partial)
        unknown == DOM(properties) \ DOM(property_defs)
        bad == {k \in DOM(property_defs) : out(k).e # <<>>}
    IN  [coerced |-> [k \in {k \in DOM(property_defs) : out(k).c # <<>>} |-> out(k).c[1]],
         errors  |-> [k \in unknown \cup bad |->
                        IF k \in unknown THEN ErrUnknown ELSE out(k).e[1]]]

\* ------------------------------------------------------------------------
\* Naming conventions
\* ------------------------------------------------------------------------

\* str.upper() / str.lower() on one character
UpperChar(c) ==
    CASE c = "a" -> "A" [] c = "b" -> "B" [] c = "p" -> "P" [] c = "w" -> "W"
      [] c = "k" -> "K" [] c = "x" -> "X" [] c = "e" -> "E" [] c = "t" -> "T"
      [] OTHER -> c
LowerChar(c) ==
    CASE c = "A" -> "a" [] c = "B" -> "b" [] c = "P" -> "p" [] c = "W" -> "w"
      [] c = "K" -> "k" [] c = "X" -> "x" [] c = "E" -> "e" [] c = "T" -> "t"
      [] OTHER -> c

\* key.split("_"): the segments between underscores, empty ones included
RECURSIVE SplitUnderscore(_, _)
SplitUnderscore(key, seg) ==
    IF key = <<>> THEN <<seg>>
    ELSE IF Head(key) = "_" THEN <<seg>> \o SplitUnderscore(Tail(key), <<>>)
    ELSE SplitUnderscore(Tail(key), Append(seg, Head(key)))

\* segment.capitalize()
Capitalize(seg) ==
    [i \in 1..Len(seg) |-> IF i = 1 THEN UpperChar(seg[i]) ELSE LowerChar(seg[i])]

RECURSIVE JoinAll(_)
JoinAll(segs) == IF segs = <<>> THEN <<>> ELSE Head(segs) \o JoinAll(Tail(segs))

to_pascal_case(key) ==
    LET segs == SplitUnderscore(key, <<>>)
    IN  JoinAll([i \in 1..Len(segs) |-> Capitalize(segs[i])])

to_upper_snake_case(key) == [i \in 1..Len(key) |-> UpperChar(key[i])]

\* ------------------------------------------------------------------------
\* The loaded schema
\* ------------------------------------------------------------------------

KeyP == <<"p">>
KeyAB == <<"a", "_", "b">>
KeyW == <<"w">>
KeyX == <<"x">>
PropN == <<"n">>
PropR == <<"r">>
PropZ == <<"z">>
PropA == <<"a">>
PropB == <<"b">>
FromEntityIdKey == <<"f", "r", "o", "m", "E", "n", "t", "i", "t", "y", "I", "d">>
ToEntityIdKey == <<"t", "o", "E", "n", "t", "i", "t", "y", "I", "d">>

\* A stored schema: entity type p has a required string n, entity type a_b has
\* no properties; relation type w (p -> a_b) has an optional integer r.
Ontology ==
    [entity_types |->
        (KeyP :> [properties |-> (PropN :> PropertyDef("string", TRUE, JNull))])
        @@ (KeyAB :> [properties |-> EmptyMap]),
     relation_types |->
        (KeyW :> [from_entity_type_key |-> KeyP, to_entity_type_key |-> KeyAB,
                  properties |-> (PropR :> PropertyDef("integer", FALSE, JNull))])]

\* SchemaCache built from the stored schema on every call
_load_schema == schema


\* ------------------------------------------------------------------------
\* Filter and sort helpers of the list endpoints
\* ------------------------------------------------------------------------

PropK == <<"k">>
Sep == <<"_", "_">>
OpGt == <<"g", "t">>
OpGte == <<"g", "t", "e">>
OpLt == <<"l", "t">>
OpLte == <<"l", "t", "e">>
OpContains == <<"c", "o", "n", "t", "a", "i", "n", "s">>
OpBad == <<"i", "n">>

\* the properties of the listed type: string n (required), integer k (optional)
ListedPropertyDefs ==
    (PropN :> PropertyDef("string", TRUE, JNull)) @@ (PropK :> PropertyDef("integer", FALSE, JNull))

\* OPERATORS: operator name -> Cypher operator
OPERATORS ==
    (OpGt :> ">") @@ (OpGte :> ">=") @@ (OpLt :> "<") @@ (OpLte :> "<=")
    @@ (OpContains :> "CONTAINS")

\* op_name = None: the expression names no operator
NoOperator == <<"None">>

\* the positions at which "__" starts in the expression
SepPositions(filter_expr) ==
    {i \in 1..(Len(filter_expr) - 1) : filter_expr[i] = "_" /\ filter_expr[i + 1] = "_"}

Max(S) == CHOOSE m \in S : \A x \in S : x <= m

\* filter_expr.rsplit("__", 1) when "__" occurs, else the whole key and no operator
ParseFilter(filter_expr) ==
    IF SepPositions(filter_expr) = {}
    THEN [prop_key |-> filter_expr, op_name |-> NoOperator]
    ELSE LET i == Max(SepPositions(filter_expr))
         IN  [prop_key |-> SubSeq(filter_expr, 1, i - 1),
              op_name |-> SubSeq(filter_expr, i + 2, Len(filter_expr))]

\* f"flt_{len(params)}"
ParamName(index) == <<"flt_", index>>

\* FilterClause with a slip: the value is written into the predicate text
FilterClause_Interpolates(node_alias, prop_key, op_name, param_name, coerced_value) ==
    IF op_name = NoOperator
    THEN <<node_alias, ".", prop_key, " = ", "'", <<PyStr(coerced_value)>>>>
    ELSE IF op_name = OpContains
    THEN <<"toLower(toString(", node_alias, ".", prop_key, ")) CONTAINS toLower($", param_name, ")">>
    ELSE <<node_alias, ".", prop_key, OPERATORS[op_name], "$", param_name>>

\* the predicate fragment: the pieces of the f-string, in order
FilterClause(node_alias, prop_key, op_name, param_name, coerced_value) ==
    IF op_name = NoOperator
    THEN <<node_alias, ".", prop_key, " = ", "$", param_name>>
    ELSE IF op_name = OpContains
    THEN <<"toLower(toString(", node_alias, ".", prop_key, ")) CONTAINS toLower($", param_name, ")">>
    ELSE <<node_alias, ".", prop_key, OPERATORS[op_name], "$", param_name>>

FilterError(key) ==
    [ok |-> FALSE, where_clauses |-> <<>>, params |-> EmptyMap, fields |-> {key}]

\* one filter entry, given the clauses and parameters built so far
FilterStep(built, filter_expr, raw_value, property_defs, node_alias) ==
    LET parsed == ParseFilter(filter_expr)
        prop_key == parsed.prop_key
        op_name == parsed.op_name
    IN  IF ~built.ok THEN built
        ELSE IF prop_key \notin DOM(property_defs) THEN FilterError(prop_key)
        ELSE LET c == IF op_name = OpContains THEN Ok(JStr(PyStr(raw_value)))
                      ELSE coerce_value(raw_value, property_defs[prop_key].data_type)
                 param_name == ParamName(Cardinality(DOM(built.params)))
             IN  IF ~c.ok THEN FilterError(prop_key)
                 ELSE IF op_name # NoOperator /\ op_name \notin DOM(OPERATORS)
                 THEN FilterError(filter_expr)
                 ELSE [ok |-> TRUE,
                       where_clauses |-> Append(built.where_clauses,
                           FilterClause(node_alias, prop_key, op_name, param_name, c.val)),
                       params |-> built.params @@ (param_name :> c.val),
                       fields |-> {}]

\* filters is the dict of the request in its order: a sequence of <<expr, value>>
RECURSIVE BuildFrom(_, _, _, _)
BuildFrom(built, filters, property_defs, node_alias) ==
    IF filters = <<>> THEN built
    ELSE BuildFrom(FilterStep(built, Head(filters)[1], Head(filters)[2], property_defs,
                              node_alias),
                   Tail(filters), property_defs, node_alias)

_build_filter_clauses(filters, property_defs, node_alias) ==
    BuildFrom([ok |-> TRUE, where_clauses |-> <<>>, params |-> EmptyMap, fields |-> {}],
              filters, property_defs, node_alias)

\* the system fields of a node, as sort keys
SortCreatedAt == <<"_createdAt">>
SortUpdatedAt == <<"_updatedAt">>

\* SYSTEM_SORT_FIELDS
SystemSortFields == {<<"createdAt">>, <<"updatedAt">>, SortCreatedAt, SortUpdatedAt}
SystemSortField(sort) ==
    CASE sort \in {<<"createdAt">>, SortCreatedAt} -> SortCreatedAt
      [] sort \in {<<"updatedAt">>, SortUpdatedAt} -> SortUpdatedAt

_validate_sort_field(sort, property_defs) ==
    IF sort \in SystemSortFields THEN [ok |-> TRUE, field |-> SystemSortField(sort)]
    ELSE IF sort \in DOM(property_defs) THEN [ok |-> TRUE, field |-> sort]
    ELSE [ok |-> FALSE, field |-> <<>>]


\* ------------------------------------------------------------------------
\* Bounds and request inputs
\* ------------------------------------------------------------------------

MaxEntities == 2
MaxRelations == 2

\* uuid4 values: entities get 1, 2, ... and relations -1, -2, ..., so the two
\* never coincide
EntityIds == 1..MaxEntities
RelationIds == {0 - i : i \in 1..MaxRelations}
\* type keys a request may name: those of the schema and one that is not defined
TypeKeyInputs == DOM(schema.entity_types) \cup {KeyX}
RelTypeKeyInputs == DOM(schema.relation_types) \cup {KeyX}

\* (type key, id) of a request for one instance; a request naming the undefined
\* type is answered before its id is looked at
EntityCalls == (DOM(schema.entity_types) \X EntityIds) \cup {<<KeyX, 1>>}
RelationCalls == (DOM(schema.relation_types) \X RelationIds) \cup {<<KeyX, 0 - 1>>}
RelationCreateCalls ==
    (DOM(schema.relation_types) \X EntityIds \X EntityIds) \cup {<<KeyX, 1, 1>>}

\* request bodies of create_entity
EntityBodies ==
    {EmptyMap,
     PropN :> JStr("abc"),
     (PropN :> JList) @@ (PropZ :> JInt(42))}
\* request bodies of update_entity
NoPatch == EmptyMap
EntityPatches ==
    {NoPatch,
     PropN :> JStr("abc"),
     PropN :> JNull,
     (PropN :> JStr("abc")) @@ (PropZ :> JInt(42))}
\* (direction, relation type key) of a get_neighbors request; <<>> is no key
NeighborQueries ==
    {<<"both", <<>>>>, <<"both", KeyW>>, <<"outgoing", <<>>>>, <<"incoming", KeyW>>}
\* the extra fields of a create_relation body
RelationBodies == {EmptyMap, PropR :> JInt(42), (PropR :> JStr("abc")) @@ (PropZ :> JInt(42))}
\* request bodies of update_relation
EndpointsOnly == (FromEntityIdKey :> JInt(1)) @@ (ToEntityIdKey :> JInt(1))
EndpointsAndR == (FromEntityIdKey :> JInt(1)) @@ (PropR :> JInt(42))
RelationPatches ==
    {NoPatch,
     PropR :> JInt(42),
     PropR :> JNull,
     PropR :> JStr("abc"),
     EndpointsOnly,
     EndpointsAndR}

\* ------------------------------------------------------------------------
\* Responses
\* ------------------------------------------------------------------------

NoFields == [x \in {} |-> ""]
Response(op, kind, id, fields, view, items) ==
    [op |-> op, kind |-> kind, id |-> id, fields |-> fields, view |-> view, items |-> items]
Returned(op, id, view) == Response(op, "ok", id, NoFields, <<view>>, <<>>)
Listed(op, items, total) == Response(op, "ok", total, NoFields, <<>>, items)
\* NotFoundError naming an instance id, or (id 0) naming a type key
NotFoundError(op, id) == Response(op, "NotFound", id, NoFields, <<>>, <<>>)
\* ValidationError("Instance validation failed", details={"fields": errors})
ValidationError(op, fields) == Response(op, "Validation", 0, fields, <<>>, <<>>)
\* the handler returns None where an instance is expected
ReturnedNone(op, id) == Response(op, "None", id, NoFields, <<>>, <<>>)

\* what a finished request leaves behind: the store after it and its response
Kept(response) ==
    [resp |-> response, entities |-> entities, relations |-> relations,
     nextEntity |-> nextEntity, nextRelation |-> nextRelation, deletedIds |-> deletedIds]

\* ------------------------------------------------------------------------
\* Repository: entity instances
\* ------------------------------------------------------------------------

\* datetime(): a timestamp is the present instant or an earlier one
Now == "now"
Earlier == "earlier"

\* n {.*} of an _Entity node
EntityView(ents, id) ==
    [id |-> id, typeKey |-> ents[id].typeKey, updatedAt |-> ents[id].updatedAt,
     props |-> ents[id].props]

\* SET x += map: the keys of the map are overwritten
Merge(props, set_properties) ==
    [k \in DOM(props) \cup DOM(set_properties) |->
        IF k \in DOM(set_properties) THEN set_properties[k] ELSE props[k]]

\* REMOVE x.k for every listed key
Remove(props, remove_properties) == [k \in DOM(props) \ remove_properties |-> props[k]]

\* MATCH (n:_Entity:<pascal_label> {_id: $entity_id})
MatchEntity(ents, pascal_label, entity_id) ==
    entity_id \in DOM(ents) /\ ents[entity_id].label = pascal_label

repo_create_entity(ents, entity_type_key, pascal_label, entity_id, properties, now) ==
    [i \in DOM(ents) \cup {entity_id} |->
        IF i = entity_id
        THEN [typeKey |-> entity_type_key, label |-> pascal_label,
              updatedAt |-> now, props |-> properties]
        ELSE ents[i]]

repo_get_entity(ents, pascal_label, entity_id) ==
    IF MatchEntity(ents, pascal_label, entity_id) THEN <<EntityView(ents, entity_id)>> ELSE <<>>

repo_update_entity(ents, pascal_label, entity_id, set_properties, remove_properties, now) ==
    IF MatchEntity(ents, pascal_label, entity_id)
    THEN [ents EXCEPT ![entity_id].props = Remove(Merge(@, set_properties), remove_properties),
                      ![entity_id].updatedAt = now]
    ELSE ents

\* repo_delete_entity with a slip: the node goes, its relationships stay
repo_delete_entity_NoDetach(ents, rels, pascal_label, entity_id) ==
    IF MatchEntity(ents, pascal_label, entity_id)
    THEN [ents |-> [i \in DOM(ents) \ {entity_id} |-> ents[i]], rels |-> rels, deleted |-> TRUE]
    ELSE [ents |-> ents, rels |-> rels, deleted |-> FALSE]

\* DETACH DELETE n: the node goes, and every relationship attached to it
repo_delete_entity(ents, rels, pascal_label, entity_id) ==
    IF MatchEntity(ents, pascal_label, entity_id)
    THEN [ents |-> [i \in DOM(ents) \ {entity_id} |-> ents[i]],
          rels |-> [r \in {r \in DOM(rels) : rels[r].from # entity_id /\ rels[r].to # entity_id}
                        |-> rels[r]],
          deleted |-> TRUE]
    ELSE [ents |-> ents, rels |-> rels, deleted |-> FALSE]

\* MATCH (n:_Entity {_id: $entity_id})
repo_get_entity_by_id(ents, entity_id) ==
    IF entity_id \in DOM(ents) THEN <<EntityView(ents, entity_id)>> ELSE <<>>

\* ------------------------------------------------------------------------
\* Repository: relation instances
\* ------------------------------------------------------------------------

\* r {.*} plus fromEntityId / toEntityId
RelationView(rels, id) ==
    [id |-> id, typeKey |-> rels[id].typeKey, fromEntityId |-> rels[id].from,
     toEntityId |-> rels[id].to, updatedAt |-> rels[id].updatedAt,
     props |-> rels[id].props]

\* MATCH (from:_Entity)-[r:<rel_type_upper> {_id: $relation_id}]->(to:_Entity)
MatchRelation(ents, rels, rel_type_upper, relation_id) ==
    /\ relation_id \in DOM(rels)
    /\ rels[relation_id].relType = rel_type_upper
    /\ rels[relation_id].from \in DOM(ents)
    /\ rels[relation_id].to \in DOM(ents)

\* repo_create_relation with a slip: the relationship is written without
\* matching its two nodes
repo_create_relation_Unmatched(ents, rels, relation_type_key, rel_type_upper, relation_id, from_entity_id, to_entity_id, properties, now) ==
    [i \in DOM(rels) \cup {relation_id} |->
        IF i = relation_id
        THEN [typeKey |-> relation_type_key, relType |-> rel_type_upper,
              from |-> from_entity_id, to |-> to_entity_id,
              updatedAt |-> now, props |-> properties]
        ELSE rels[i]]

\* MATCH (from ...) MATCH (to ...) CREATE (from)-[r]->(to): nothing is created
\* and no row comes back unless both nodes match
repo_create_relation(ents, rels, relation_type_key, rel_type_upper, relation_id, from_entity_id, to_entity_id, properties, now) ==
    IF from_entity_id \in DOM(ents) /\ to_entity_id \in DOM(ents)
    THEN [i \in DOM(rels) \cup {relation_id} |->
            IF i = relation_id
            THEN [typeKey |-> relation_type_key, relType |-> rel_type_upper,
                  from |-> from_entity_id, to |-> to_entity_id,
                  updatedAt |-> now, props |-> properties]
            ELSE rels[i]]
    ELSE rels

repo_get_relation(ents, rels, rel_type_upper, relation_id) ==
    IF MatchRelation(ents, rels, rel_type_upper, relation_id)
    THEN <<RelationView(rels, relation_id)>> ELSE <<>>

repo_update_relation(ents, rels, rel_type_upper, relation_id, set_properties, remove_properties, now) ==
    IF MatchRelation(ents, rels, rel_type_upper, relation_id)
    THEN [rels EXCEPT ![relation_id].props = Remove(Merge(@, set_properties), remove_properties),
                      ![relation_id].updatedAt = now]
    ELSE rels

\* repo_delete_relation with a slip: the match is counted, nothing is deleted
repo_delete_relation_CountsOnly(rels, rel_type_upper, relation_id) ==
    IF relation_id \in DOM(rels) /\ rels[relation_id].relType = rel_type_upper
    THEN [rels |-> rels, deleted |-> TRUE]
    ELSE [rels |-> rels, deleted |-> FALSE]

\* repo_delete_relation with a slip: the DELETE is not narrowed to the _id
repo_delete_relation_AllOfType(rels, rel_type_upper, relation_id) ==
    IF relation_id \in DOM(rels) /\ rels[relation_id].relType = rel_type_upper
    THEN [rels |-> [r \in {r \in DOM(rels) : rels[r].relType # rel_type_upper} |-> rels[r]],
          deleted |-> TRUE]
    ELSE [rels |-> rels, deleted |-> FALSE]

\* MATCH ()-[r:<rel_type_upper> {_id: $relation_id}]->() DELETE r
repo_delete_relation(rels, rel_type_upper, relation_id) ==
    IF relation_id \in DOM(rels) /\ rels[relation_id].relType = rel_type_upper
    THEN [rels |-> [r \in DOM(rels) \ {relation_id} |-> rels[r]], deleted |-> TRUE]
    ELSE [rels |-> rels, deleted |-> FALSE]

\* ------------------------------------------------------------------------
\* Repository: listing and traversal
\* ------------------------------------------------------------------------

Min(a, b) == IF a < b THEN a ELSE b

\* the orders in which the storage engine may return the rows of a set
Orderings(S) ==
    {o \in [1..Cardinality(S) -> S] : \A i, j \in 1..Cardinality(S) : i # j => o[i] # o[j]}

\* SKIP $offset LIMIT $limit
Page(rows, offset, limit) == SubSeq(rows, offset + 1, Min(Len(rows), offset + limit))

\* the order of two Cypher values of one type; strings by their rank among the
\* strings of the model
StrRank(str) == CASE str = "42" -> 1 [] str = "7" -> 2 [] str = "abc" -> 3 [] str = "xyz" -> 4 [] OTHER -> 0
ValueLess(a, b) == IF a.k = "str" /\ b.k = "str" THEN StrRank(a.s) < StrRank(b.s) ELSE a.k = b.k /\ a.n < b.n

\* n.<prop_key>: null when the node has no such property
NodeValue(props, prop_key) == IF prop_key \in DOM(props) THEN props[prop_key] ELSE JNull

\* a comparison with null is null, and the row is not kept
Compare(op, a, b) ==
    IF a = JNull \/ b = JNull THEN FALSE
    ELSE CASE op = " = " -> a = b
           [] op = ">" -> ValueLess(b, a)
           [] op = ">=" -> ValueLess(b, a) \/ a = b
           [] op = "<" -> ValueLess(a, b)
           [] op = "<=" -> ValueLess(a, b) \/ a = b

\* toLower(s)
ToLower(str) == CASE str = "B" -> "b" [] str = "ABC" -> "abc" [] OTHER -> str
\* s CONTAINS t, on the lower-case strings of the model
Contains(str, part) == str = part \/ <<str, part>> \in {<<"abc", "b">>, <<"42", "4">>}
\* toLower(toString(a)) CONTAINS toLower(b)
LowerContains(a, b) ==
    IF a = JNull \/ b = JNull THEN FALSE ELSE Contains(ToLower(PyStr(a)), ToLower(PyStr(b)))

\* whether a node satisfies one predicate fragment under the bound parameters
HoldsClause(fragment, params, props) ==
    IF fragment[1] = "("
    THEN \E c \in fragment[2] : LowerContains(NodeValue(props, c[4]), params[c[6]])
    ELSE IF fragment[1] = "toLower(toString("
    THEN LowerContains(NodeValue(props, fragment[4]), params[fragment[6]])
    ELSE Compare(fragment[4], NodeValue(props, fragment[3]), params[fragment[6]])

HoldsAll(where_clauses, params, props) ==
    \A i \in 1..Len(where_clauses) : HoldsClause(where_clauses[i], params, props)

\* ORDER BY x.<sort_field> <order>.  By _updatedAt a row written earlier sorts
\* before one written at this instant; by _createdAt the rows come in any
\* order the timestamps allow; by a property the values decide, and a row
\* without the property (null) sorts after every value.  Rows the sort key does
\* not tell apart come in any order.
SortsBefore(store, i, j, sort_field) ==
    IF sort_field = SortUpdatedAt
    THEN store[i].updatedAt = Earlier /\ store[j].updatedAt = Now
    ELSE IF sort_field = SortCreatedAt THEN FALSE
    ELSE LET a == NodeValue(store[i].props, sort_field)
             b == NodeValue(store[j].props, sort_field)
         IN  IF a = JNull THEN FALSE ELSE IF b = JNull THEN TRUE ELSE ValueLess(a, b)

SortedRows(store, S, sort_field, order) ==
    {o \in Orderings(S) :
        \A i, j \in 1..Len(o) :
            i < j => IF order = "desc" THEN ~SortsBefore(store, o[i], o[j], sort_field)
                     ELSE ~SortsBefore(store, o[j], o[i], sort_field)}

\* MATCH (n:_Entity:<pascal_label>) WHERE n._entityTypeKey = $entity_type_key
ListedEntities(ents, pascal_label, entity_type_key) ==
    {i \in DOM(ents) : ents[i].label = pascal_label /\ ents[i].typeKey = entity_type_key}

\* ... AND <where_clauses>
MatchedEntities(ents, pascal_label, entity_type_key, where_clauses, params) ==
    {i \in ListedEntities(ents, pascal_label, entity_type_key) :
        HoldsAll(where_clauses, params, ents[i].props)}

\* repo_list_entities with a slip: the total counts the page
repo_list_entities_PageTotal(ents, pascal_label, entity_type_key, where_clauses, params, sort_field, order, limit, offset) ==
    LET S == MatchedEntities(ents, pascal_label, entity_type_key, where_clauses, params)
    IN  IF S = {} THEN {[items |-> <<>>, total |-> 0]}
        ELSE {[items |-> Page(o, offset, limit), total |-> Len(Page(o, offset, limit))] :
                o \in SortedRows(ents, S, sort_field, order)}

\* the (items, total) pairs list_entities may return
repo_list_entities(ents, pascal_label, entity_type_key, where_clauses, params, sort_field, order, limit, offset) ==
    LET S == MatchedEntities(ents, pascal_label, entity_type_key, where_clauses, params)
    IN  IF S = {} THEN {[items |-> <<>>, total |-> 0]}
        ELSE {[items |-> Page(o, offset, limit), total |-> Cardinality(S)] :
                o \in SortedRows(ents, S, sort_field, order)}

\* MATCH (from:_Entity)-[r:<rel_type_upper>]->(to:_Entity) WHERE r._relationTypeKey = $key
ListedRelations(ents, rels, rel_type_upper, relation_type_key) ==
    {r \in DOM(rels) : /\ rels[r].relType = rel_type_upper
                       /\ rels[r].typeKey = relation_type_key
                       /\ rels[r].from \in DOM(ents) /\ rels[r].to \in DOM(ents)}

repo_list_relations(ents, rels, rel_type_upper, relation_type_key, sort_field, order, limit, offset) ==
    LET S == ListedRelations(ents, rels, rel_type_upper, relation_type_key)
    IN  IF S = {} THEN {[items |-> <<>>, total |-> 0]}
        ELSE {[items |-> Page(o, offset, limit), total |-> Cardinality(S)] :
                o \in SortedRows(rels, S, sort_field, order)}

\* [r:<filter>] or [r]; an absent filter is the empty key
RelPattern(rels, r, relation_type_filter) ==
    relation_type_filter = <<>> \/ rels[r].relType = relation_type_filter

OutgoingOf(ents, rels, entity_id, relation_type_filter) ==
    {r \in DOM(rels) : /\ rels[r].from = entity_id /\ rels[r].to \in DOM(ents)
                       /\ RelPattern(rels, r, relation_type_filter)}

IncomingOf(ents, rels, entity_id, relation_type_filter) ==
    {r \in DOM(rels) : /\ rels[r].to = entity_id /\ rels[r].from \in DOM(ents)
                       /\ RelPattern(rels, r, relation_type_filter)}

NeighborRows(rels, rows, direction) ==
    [i \in 1..Len(rows) |->
        [relation |-> rows[i], direction |-> direction,
         entity |-> IF direction = "outgoing" THEN rels[rows[i]].to ELSE rels[rows[i]].from]]

\* repo_get_neighbors_run with a slip: the incoming query is given the whole limit
repo_get_neighbors_run_FullLimit(ents, rels, entity_id, direction, relation_type_filter, limit) ==
    LET outs == OutgoingOf(ents, rels, entity_id, relation_type_filter)
        ins == IncomingOf(ents, rels, entity_id, relation_type_filter)
    IN  IF direction = "both"
        THEN UNION {
               LET results == NeighborRows(rels, Page(o, 0, limit), "outgoing")
               IN  {[results |-> results \o NeighborRows(rels, Page(i, 0, limit), "incoming"),
                     queries |-> <<"outgoing", "incoming">>] : i \in Orderings(ins)}
               : o \in Orderings(outs)}
        ELSE IF direction = "outgoing"
        THEN {[results |-> NeighborRows(rels, Page(o, 0, limit), "outgoing"),
               queries |-> <<"outgoing">>] : o \in Orderings(outs)}
        ELSE {[results |-> NeighborRows(rels, Page(i, 0, limit), "incoming"),
               queries |-> <<"incoming">>] : i \in Orderings(ins)}

\* the runs get_neighbors may make: the result list and the queries issued
repo_get_neighbors_run(ents, rels, entity_id, direction, relation_type_filter, limit) ==
    LET outs == OutgoingOf(ents, rels, entity_id, relation_type_filter)
        ins == IncomingOf(ents, rels, entity_id, relation_type_filter)
    IN  IF direction = "both"
        THEN UNION {
               LET results == NeighborRows(rels, Page(o, 0, limit), "outgoing")
                   remaining == limit - Len(results)
               IN  IF remaining > 0
                   THEN {[results |-> results \o NeighborRows(rels, Page(i, 0, remaining), "incoming"),
                          queries |-> <<"outgoing", "incoming">>] : i \in Orderings(ins)}
                   ELSE {[results |-> results, queries |-> <<"outgoing">>]}
               : o \in Orderings(outs)}
        ELSE IF direction = "outgoing"
        THEN {[results |-> NeighborRows(rels, Page(o, 0, limit), "outgoing"),
               queries |-> <<"outgoing">>] : o \in Orderings(outs)}
        ELSE {[results |-> NeighborRows(rels, Page(i, 0, limit), "incoming"),
               queries |-> <<"incoming">>] : i \in Orderings(ins)}

\* the result lists get_neighbors may return
repo_get_neighbors(ents, rels, entity_id, direction, relation_type_filter, limit) ==
    {run.results : run \in repo_get_neighbors_run(ents, rels, entity_id, direction, relation_type_filter, limit)}

\* ------------------------------------------------------------------------
\* Service: entity instance CRUD.  A handler is the outcome of its call in
\* the current state: the response and the store it leaves.
\* ------------------------------------------------------------------------

\* coerced keys to set (non-null) and to remove (null)
SetProps(coerced) == [k \in {k \in DOM(coerced) : coerced[k] # JNull} |-> coerced[k]]
RemoveProps(coerced) == {k \in DOM(coerced) : coerced[k] = JNull}

\* create_entity with a slip: the body is validated before the type is looked up
create_entity_ValidatesFirst(entity_type_key, body) ==
    LET cache == _load_schema
        property_defs == IF entity_type_key \in DOM(cache.entity_types)
                         THEN cache.entity_types[entity_type_key].properties ELSE EmptyMap
        v == validate_properties(body, property_defs, FALSE)
        entity_id == nextEntity + 1
        created == repo_create_entity(entities, entity_type_key,
                                      to_pascal_case(entity_type_key), entity_id, v.coerced, Now)
    IN  IF DOM(v.errors) # {}
        THEN Kept(ValidationError("create_entity", v.errors))
        ELSE IF entity_type_key \notin DOM(cache.entity_types)
        THEN Kept(NotFoundError("create_entity", 0))
        ELSE [Kept(Returned("create_entity", entity_id, EntityView(created, entity_id)))
                 EXCEPT !.entities = created, !.nextEntity = entity_id]

create_entity(entity_type_key, body) ==
    LET cache == _load_schema IN
    IF entity_type_key \notin DOM(cache.entity_types)
    THEN Kept(NotFoundError("create_entity", 0))
    ELSE LET v == validate_properties(body, cache.entity_types[entity_type_key].properties, FALSE)
             entity_id == nextEntity + 1
             created == repo_create_entity(entities, entity_type_key,
                                           to_pascal_case(entity_type_key), entity_id,
                                           v.coerced, Now)
         IN  IF DOM(v.errors) # {}
             THEN Kept(ValidationError("create_entity", v.errors))
             ELSE [Kept(Returned("create_entity", entity_id, EntityView(created, entity_id)))
                      EXCEPT !.entities = created, !.nextEntity = entity_id]

\* get_entity, answering for the handler op that called it
get_entity_as(op, entity_type_key, entity_id) ==
    LET cache == _load_schema
        entity == repo_get_entity(entities, to_pascal_case(entity_type_key), entity_id)
    IN  IF entity_type_key \notin DOM(cache.entity_types) THEN Kept(NotFoundError(op, 0))
        ELSE IF entity = <<>> THEN Kept(NotFoundError(op, entity_id))
        ELSE Kept(Returned(op, entity_id, entity[1]))

get_entity(entity_type_key, entity_id) == get_entity_as("get_entity", entity_type_key, entity_id)

\* update_entity with a slip: no short-circuit, the write is issued even when
\* there is nothing to set or remove
update_entity_AlwaysWrites(entity_type_key, entity_id, body) ==
    LET cache == _load_schema IN
    IF entity_type_key \notin DOM(cache.entity_types)
    THEN Kept(NotFoundError("update_entity", 0))
    ELSE LET v == validate_properties(body, cache.entity_types[entity_type_key].properties, TRUE)
             set_props == SetProps(v.coerced)
             remove_props == RemoveProps(v.coerced)
             pascal_label == to_pascal_case(entity_type_key)
             updated == repo_update_entity(entities, pascal_label, entity_id,
                                           set_props, remove_props, Now)
         IN  IF DOM(v.errors) # {}
             THEN Kept(ValidationError("update_entity", v.errors))
             ELSE IF MatchEntity(entities, pascal_label, entity_id)
             THEN [Kept(Returned("update_entity", entity_id, EntityView(updated, entity_id)))
                      EXCEPT !.entities = updated]
             ELSE Kept(NotFoundError("update_entity", entity_id))

update_entity(entity_type_key, entity_id, body) ==
    LET cache == _load_schema IN
    IF entity_type_key \notin DOM(cache.entity_types)
    THEN Kept(NotFoundError("update_entity", 0))
    ELSE LET v == validate_properties(body, cache.entity_types[entity_type_key].properties, TRUE)
             set_props == SetProps(v.coerced)
             remove_props == RemoveProps(v.coerced)
             pascal_label == to_pascal_case(entity_type_key)
             updated == repo_update_entity(entities, pascal_label, entity_id,
                                           set_props, remove_props, Now)
         IN  IF DOM(v.errors) # {}
             THEN Kept(ValidationError("update_entity", v.errors))
             ELSE IF DOM(set_props) = {} /\ remove_props = {}
             THEN get_entity_as("update_entity", entity_type_key, entity_id)
             ELSE IF MatchEntity(entities, pascal_label, entity_id)
             THEN [Kept(Returned("update_entity", entity_id, EntityView(updated, entity_id)))
                      EXCEPT !.entities = updated]
             ELSE Kept(NotFoundError("update_entity", entity_id))

delete_entity(entity_type_key, entity_id) ==
    LET cache == _load_schema
        d == repo_delete_entity(entities, relations, to_pascal_case(entity_type_key), entity_id)
    IN  IF entity_type_key \notin DOM(cache.entity_types)
        THEN Kept(NotFoundError("delete_entity", 0))
        ELSE IF d.deleted
        THEN [Kept(Response("delete_entity", "ok", entity_id, NoFields, <<>>, <<>>))
                 EXCEPT !.entities = d.ents, !.relations = d.rels,
                        !.deletedIds = deletedIds \cup {entity_id}]
        ELSE [Kept(NotFoundError("delete_entity", entity_id))
                 EXCEPT !.entities = d.ents, !.relations = d.rels]

\* q=None or q=""
NoQ == ""
QSearch == <<"q_search", 0>>

\* the free-text clause: any string property contains q
TextSearchClause(property_defs) ==
    <<"(", {<<"toLower(toString(", "n", ".", prop, ")) CONTAINS toLower($", QSearch, ")">> :
              prop \in {k \in DOM(property_defs) : property_defs[k].data_type = "string"}}, ")">>

\* the responses list_entities may give
list_entities(entity_type_key, limit, offset, sort, order, q, filters) ==
    LET cache == _load_schema IN
    IF entity_type_key \notin DOM(cache.entity_types)
    THEN {NotFoundError("list_entities", 0)}
    ELSE LET property_defs == cache.entity_types[entity_type_key].properties
             built == _build_filter_clauses(filters, property_defs, "n")
             searched == q # NoQ /\ \E k \in DOM(property_defs) : property_defs[k].data_type = "string"
             where_clauses == IF searched
                              THEN Append(built.where_clauses, TextSearchClause(property_defs))
                              ELSE built.where_clauses
             params == IF searched THEN built.params @@ (QSearch :> JStr(q)) ELSE built.params
             sort_field == _validate_sort_field(sort, property_defs)
         IN  IF ~built.ok
             THEN {ValidationError("list_entities", [k \in built.fields |-> "Invalid filter"])}
             ELSE IF ~sort_field.ok
             THEN {ValidationError("list_entities", [k \in {<<"s", "o", "r", "t">>} |-> "Invalid sort field"])}
             ELSE {Listed("list_entities", page.items, page.total) :
                     page \in repo_list_entities(entities, to_pascal_case(entity_type_key),
                                                 entity_type_key, where_clauses, params,
                                                 sort_field.field, order, limit, offset)}

\* the responses get_neighbors may give
get_neighbors(entity_type_key, entity_id, direction, relation_type_key, limit) ==
    LET cache == _load_schema
        entity == repo_get_entity(entities, to_pascal_case(entity_type_key), entity_id)
        rel_type_filter == IF relation_type_key # <<>>
                           THEN to_upper_snake_case(relation_type_key) ELSE <<>>
    IN  IF entity_type_key \notin DOM(cache.entity_types)
        THEN {NotFoundError("get_neighbors", 0)}
        ELSE IF entity = <<>>
        THEN {NotFoundError("get_neighbors", entity_id)}
        ELSE {Response("get_neighbors", "ok", entity_id, NoFields, entity, neighbors) :
                neighbors \in repo_get_neighbors(entities, relations, entity_id, direction,
                                                 rel_type_filter, limit)}

\* ------------------------------------------------------------------------
\* Service: relation instance CRUD
\* ------------------------------------------------------------------------

ErrEndpointNotFound == "entity not found"
ErrEndpointType == "entity type mismatch"

\* EndpointError with a slip: the entity is looked up, its type is not compared
EndpointError_ExistsOnly(ents, entity_id, expected_type_key) ==
    LET found == repo_get_entity_by_id(ents, entity_id)
    IN  IF found = <<>> THEN <<ErrEndpointNotFound>> ELSE <<>>

\* the fromEntityId / toEntityId check of create_relation: the error it adds, if any
EndpointError(ents, entity_id, expected_type_key) ==
    LET found == repo_get_entity_by_id(ents, entity_id)
    IN  IF found = <<>> THEN <<ErrEndpointNotFound>>
        ELSE IF found[1].typeKey # expected_type_key THEN <<ErrEndpointType>>
        ELSE <<>>

\* errors[key] = message
WithError(errors, key, err) ==
    IF err = <<>> THEN errors
    ELSE [k \in DOM(errors) \cup {key} |-> IF k = key THEN err[1] ELSE errors[k]]

create_relation(relation_type_key, from_entity_id, to_entity_id, user_props) ==
    LET cache == _load_schema IN
    IF relation_type_key \notin DOM(cache.relation_types)
    THEN Kept(NotFoundError("create_relation", 0))
    ELSE LET rt_def == cache.relation_types[relation_type_key]
             v == validate_properties(user_props, rt_def.properties, FALSE)
             errors == WithError(
                         WithError(v.errors, FromEntityIdKey,
                                   EndpointError(entities, from_entity_id,
                                                 rt_def.from_entity_type_key)),
                         ToEntityIdKey,
                         EndpointError(entities, to_entity_id, rt_def.to_entity_type_key))
             relation_id == 0 - (nextRelation + 1)
             created == repo_create_relation(entities, relations, relation_type_key,
                            to_upper_snake_case(relation_type_key), relation_id,
                            from_entity_id, to_entity_id, v.coerced, Now)
         IN  IF DOM(errors) # {}
             THEN Kept(ValidationError("create_relation", errors))
             ELSE [Kept(IF relation_id \in DOM(created)
                        THEN Returned("create_relation", relation_id,
                                      RelationView(created, relation_id))
                        ELSE ReturnedNone("create_relation", relation_id))
                      EXCEPT !.relations = created, !.nextRelation = nextRelation + 1]

\* get_relation, answering for the handler op that called it
get_relation_as(op, relation_type_key, relation_id) ==
    LET cache == _load_schema
        relation == repo_get_relation(entities, relations,
                                      to_upper_snake_case(relation_type_key), relation_id)
    IN  IF relation_type_key \notin DOM(cache.relation_types) THEN Kept(NotFoundError(op, 0))
        ELSE IF relation = <<>> THEN Kept(NotFoundError(op, relation_id))
        ELSE Kept(Returned(op, relation_id, relation[1]))

get_relation(relation_type_key, relation_id) ==
    get_relation_as("get_relation", relation_type_key, relation_id)

\* StripEndpoints with a slip: the two keys stay in the body
StripEndpoints_Keeps(body) == body

\* body.pop("fromEntityId", None); body.pop("toEntityId", None)
StripEndpoints(body) == [k \in DOM(body) \ {FromEntityIdKey, ToEntityIdKey} |-> body[k]]

update_relation(relation_type_key, relation_id, patch) ==
    LET cache == _load_schema IN
    IF relation_type_key \notin DOM(cache.relation_types)
    THEN Kept(NotFoundError("update_relation", 0))
    ELSE LET body == StripEndpoints(patch)
             v == validate_properties(body, cache.relation_types[relation_type_key].properties,
                                      TRUE)
             set_props == SetProps(v.coerced)
             remove_props == RemoveProps(v.coerced)
             rel_type_upper == to_upper_snake_case(relation_type_key)
             updated == repo_update_relation(entities, relations, rel_type_upper,
                                             relation_id, set_props, remove_props, Now)
         IN  IF DOM(v.errors) # {}
             THEN Kept(ValidationError("update_relation", v.errors))
             ELSE IF DOM(set_props) = {} /\ remove_props = {}
             THEN get_relation_as("update_relation", relation_type_key, relation_id)
             ELSE IF MatchRelation(entities, relations, rel_type_upper, relation_id)
             THEN [Kept(Returned("update_relation", relation_id,
                                 RelationView(updated, relation_id)))
                      EXCEPT !.relations = updated]
             ELSE Kept(NotFoundError("update_relation", relation_id))

delete_relation(relation_type_key, relation_id) ==
    LET cache == _load_schema
        d == repo_delete_relation(relations, to_upper_snake_case(relation_type_key), relation_id)
    IN  IF relation_type_key \notin DOM(cache.relation_types)
        THEN Kept(NotFoundError("delete_relation", 0))
        ELSE IF d.deleted
        THEN [Kept(Response("delete_relation", "ok", relation_id, NoFields, <<>>, <<>>))
                 EXCEPT !.relations = d.rels, !.deletedIds = deletedIds \cup {relation_id}]
        ELSE [Kept(NotFoundError("delete_relation", relation_id)) EXCEPT !.relations = d.rels]

\* the responses list_relations may give
list_relations(relation_type_key, limit, offset, sort, order) ==
    LET cache == _load_schema IN
    IF relation_type_key \notin DOM(cache.relation_types)
    THEN {NotFoundError("list_relations", 0)}
    ELSE LET sort_field == _validate_sort_field(sort,
                               cache.relation_types[relation_type_key].properties)
         IN  IF ~sort_field.ok
             THEN {ValidationError("list_relations", [k \in {<<"s", "o", "r", "t">>} |-> "Invalid sort field"])}
             ELSE {Listed("list_relations", page.items, page.total) :
                     page \in repo_list_relations(entities, relations,
                                  to_upper_snake_case(relation_type_key), relation_type_key,
                                  sort_field.field, order, limit, offset)}

\* ------------------------------------------------------------------------
\* The instance store as a state machine: requests are served one at a time
\* ------------------------------------------------------------------------

NoCall == [properties |-> EmptyMap, property_defs |-> EmptyMap, partial |-> FALSE, done |-> FALSE]
NoResult == [coerced |-> EmptyMap, errors |-> NoFields]


Init ==
    /\ entities = [i \in {} |-> 0]
    /\ relations = [i \in {} |-> 0]
    /\ nextEntity = 0
    /\ nextRelation = 0
    /\ schema = Ontology
    /\ deletedIds = {}
    /\ vpIn = NoCall
    /\ vpOut = NoResult
    /\ embeddings = [i \in {} |-> 0]
    /\ call = <<>>
    /\ result = <<>>

\* the request is served: the caller has outcome.resp, and the store becomes the
\* one the request leaves
Serve(outcome) ==
    /\ entities' = outcome.entities
    /\ relations' = outcome.relations
    /\ nextEntity' = outcome.nextEntity
    /\ nextRelation' = outcome.nextRelation
    /\ deletedIds' = outcome.deletedIds
    /\ UNCHANGED <<schema, vpIn, vpOut, embeddings, call, result>>

CreateEntity ==
    \E tk \in TypeKeyInputs, body \in EntityBodies :
        \E outcome \in {create_entity(tk, body)} :
            outcome.nextEntity <= MaxEntities /\ Serve(outcome)
GetEntity == \E c \in EntityCalls : \E outcome \in {get_entity(c[1], c[2])} : Serve(outcome)
UpdateEntity ==
    \E c \in EntityCalls, body \in EntityPatches :
        \E outcome \in {update_entity(c[1], c[2], body)} : Serve(outcome)
DeleteEntity == \E c \in EntityCalls : \E outcome \in {delete_entity(c[1], c[2])} : Serve(outcome)
ListEntities ==
    \E tk \in TypeKeyInputs, offset \in {0, 1} :
        \E response \in list_entities(tk, MaxEntities, offset, SortCreatedAt, "asc", NoQ, <<>>) :
            Serve(Kept(response))
GetNeighbors ==
    \E c \in EntityCalls, q \in NeighborQueries :
        \E response \in get_neighbors(c[1], c[2], q[1], q[2], MaxRelations) :
            Serve(Kept(response))
CreateRelation ==
    \E c \in RelationCreateCalls, body \in RelationBodies :
        \E outcome \in {create_relation(c[1], c[2], c[3], body)} :
            outcome.nextRelation <= MaxRelations /\ Serve(outcome)
GetRelation == \E c \in RelationCalls : \E outcome \in {get_relation(c[1], c[2])} : Serve(outcome)
UpdateRelation ==
    \E c \in RelationCalls, patch \in RelationPatches :
        \E outcome \in {update_relation(c[1], c[2], patch)} : Serve(outcome)
DeleteRelation ==
    \E c \in RelationCalls : \E outcome \in {delete_relation(c[1], c[2])} : Serve(outcome)
ListRelations ==
    \E rtk \in RelTypeKeyInputs, offset \in {0, 1} :
        \E response \in list_relations(rtk, MaxRelations, offset, SortCreatedAt, "asc") :
            Serve(Kept(response))

\* time passes: what was written at the present instant was written earlier
Tick ==
    /\ entities' = [i \in DOM(entities) |-> [entities[i] EXCEPT !.updatedAt = Earlier]]
    /\ relations' = [r \in DOM(relations) |-> [relations[r] EXCEPT !.updatedAt = Earlier]]
    /\ UNCHANGED <<nextEntity, nextRelation, deletedIds, schema, vpIn, vpOut, embeddings, call, result>>

Next ==
    \/ CreateEntity
    \/ GetEntity
    \/ UpdateEntity
    \/ DeleteEntity
    \/ ListEntities
    \/ GetNeighbors
    \/ CreateRelation
    \/ GetRelation
    \/ UpdateRelation
    \/ DeleteRelation
    \/ ListRelations
    \/ Tick

Spec == Init /\ [][Next]_vars

\* ------------------------------------------------------------------------
\* validate_properties on its own: one call on arguments drawn from the
\* property definitions the modeling service can store (any data type,
\* required or not, a default that is absent or any string) and the JSON
\* values a request body can carry
\* ------------------------------------------------------------------------

DefaultValues == {JNull, JStr("42"), JStr("TRUE"), JStr("2024-01-01"), JStr("abc")}

PropertyDefsA ==
    {PropertyDef(dt, req, dflt) : dt \in DataTypes, req \in BOOLEAN, dflt \in DefaultValues}
PropertyDefsB == {PropertyDef("integer", TRUE, JNull), PropertyDef("boolean", FALSE, JStr("abc"))}

\* <<>> stands for a key the input does not hold
InputValuesA ==
    {<<>>, <<JNull>>, <<JBool(TRUE)>>, <<JInt(42)>>, <<JFloat(45)>>, <<JStr("42")>>,
     <<JStr("4.5")>>, <<JStr("False")>>, <<JStr("abc")>>, <<JStr("2024-01-01")>>,
     <<JStr("2024-01-01T10:00:00")>>, <<JList>>}
InputValuesB == {<<>>, <<JNull>>, <<JInt(7)>>, <<JStr("abc")>>}
InputValuesZ == {<<>>, <<JInt(42)>>}

InputOf(va, vb, vz) ==
    LET given == (PropA :> va) @@ (PropB :> vb) @@ (PropZ :> vz)
    IN  [k \in {k \in DOM(given) : given[k] # <<>>} |-> given[k][1]]

InitVP ==
    /\ entities = [i \in {} |-> 0]
    /\ relations = [i \in {} |-> 0]
    /\ nextEntity = 0
    /\ nextRelation = 0
    /\ schema = Ontology
    /\ deletedIds = {}
    /\ vpOut = NoResult
    /\ embeddings = [i \in {} |-> 0]
    /\ call = <<>>
    /\ result = <<>>
    /\ \E da \in PropertyDefsA, db \in PropertyDefsB, va \in InputValuesA,
          vb \in InputValuesB, vz \in InputValuesZ, partial \in BOOLEAN :
            vpIn = [properties |-> InputOf(va, vb, vz),
                    property_defs |-> (PropA :> da) @@ (PropB :> db),
                    partial |-> partial, done |-> FALSE]

Validate ==
    /\ ~vpIn.done
    /\ vpOut' = validate_properties(vpIn.properties, vpIn.property_defs, vpIn.partial)
    /\ vpIn' = [vpIn EXCEPT !.done = TRUE]
    /\ UNCHANGED <<entities, relations, nextEntity, nextRelation, schema, deletedIds,
                   embeddings, call, result>>

NextVP == Validate

SpecVP == InitVP /\ [][NextVP]_vars

\* the defined properties the input does not hold
AbsentKeys == DOM(vpIn.property_defs) \ DOM(vpIn.properties)
\* the defined properties the input holds, and those it maps to null
GivenKeys == DOM(vpIn.property_defs) \cap DOM(vpIn.properties)
NullKeys == {k \in GivenKeys : vpIn.properties[k] = JNull}
UnknownKeys == DOM(vpIn.properties) \ DOM(vpIn.property_defs)
Coercible(v, dt) == coerce_value(v, dt).ok
Without(f, keys) == [k \in DOM(f) \ keys |-> f[k]]

\* ------------------------------------------------------------------------
\* C2
\* ------------------------------------------------------------------------

\* C2 as stated: in create mode, for every defined property absent from the
\* input, a required property without a default is reported as missing, a
\* required property with a default has its coerced default in the coerced map,
\* and an optional property is left out of the coerced map.
C2_AbsentOnCreate_AsStated ==
    (vpIn.done /\ ~vpIn.partial) =>
        \A k \in AbsentKeys :
            LET d == vpIn.property_defs[k] IN
            /\ (d.required /\ d.default_value = JNull) =>
                   (k \in DOM(vpOut.errors) /\ k \notin DOM(vpOut.coerced))
            /\ (d.required /\ d.default_value # JNull) => k \in DOM(vpOut.coerced)
            /\ ~d.required => k \notin DOM(vpOut.coerced)

\* C2 amended: in create mode, for every defined property absent from the
\* input: required and no default gives the 'required property missing' field
\* error; required with a default that coerces to the data type puts the coerced
\* default into the coerced map, and with a default that does not coerce gives a
\* field error for the key and no coerced entry; optional leaves the key out of
\* the coerced map and reports nothing, whatever its default.
C2_AbsentOnCreate ==
    (vpIn.done /\ ~vpIn.partial) =>
        \A k \in AbsentKeys :
            LET d == vpIn.property_defs[k] IN
            /\ (d.required /\ d.default_value = JNull) =>
                   /\ k \in DOM(vpOut.errors) /\ vpOut.errors[k] = ErrMissing
                   /\ k \notin DOM(vpOut.coerced)
            /\ (d.required /\ d.default_value # JNull /\ Coercible(d.default_value, d.data_type)) =>
                   /\ k \in DOM(vpOut.coerced)
                   /\ vpOut.coerced[k] = coerce_value(d.default_value, d.data_type).val
                   /\ vpOut.coerced[k] # JNull
                   /\ k \notin DOM(vpOut.errors)
            /\ (d.required /\ d.default_value # JNull /\ ~Coercible(d.default_value, d.data_type)) =>
                   /\ k \in DOM(vpOut.errors) /\ vpOut.errors[k] = ErrCoerce
                   /\ k \notin DOM(vpOut.coerced)
            /\ ~d.required => (k \notin DOM(vpOut.coerced) /\ k \notin DOM(vpOut.errors))

\* a create-mode call has returned where a is absent, required and has a default
\* that was injected, and b is absent, required and without a default
C2_Witness ==
    /\ vpIn.done /\ ~vpIn.partial
    /\ AbsentKeys = {PropA, PropB}
    /\ vpIn.property_defs[PropA].required
    /\ vpIn.property_defs[PropA].default_value = JStr("42")
    /\ vpIn.property_defs[PropA].data_type = "integer"
    /\ PropA \in DOM(vpOut.coerced) /\ vpOut.coerced[PropA] = JInt(42)
    /\ vpIn.property_defs[PropB].required
    /\ PropB \in DOM(vpOut.errors)

\* ------------------------------------------------------------------------
\* C3
\* ------------------------------------------------------------------------

\* what update_entity hands to storage for a coerced map, applied to a stored
\* entity that holds every key of the map
StoredAfterPatch(coerced) ==
    LET held == [k \in DOM(coerced) |-> JStr("abc")]
        ents == repo_create_entity([i \in {} |-> 0], KeyP, to_pascal_case(KeyP), 1, held, Earlier)
    IN  repo_update_entity(ents, to_pascal_case(KeyP), 1, SetProps(coerced),
                           RemoveProps(coerced), Now)[1].props

\* C3: in update mode a defined property absent from the input gets neither a
\* coerced entry nor a field error, even when required; null on a required
\* property gets a field error; null on an optional property gets a coerced
\* null, which update_entity hands to storage as the removal of the property;
\* a non-null value is coerced by the declared data type (or reported when it
\* does not coerce).
C3_PartialMode ==
    (vpIn.done /\ vpIn.partial) =>
        /\ \A k \in AbsentKeys : k \notin DOM(vpOut.coerced) /\ k \notin DOM(vpOut.errors)
        /\ \A k \in NullKeys :
              IF vpIn.property_defs[k].required
              THEN /\ k \in DOM(vpOut.errors) /\ vpOut.errors[k] = ErrNullRequired
                   /\ k \notin DOM(vpOut.coerced)
              ELSE /\ k \in DOM(vpOut.coerced) /\ vpOut.coerced[k] = JNull
                   /\ k \notin DOM(vpOut.errors)
                   /\ k \in RemoveProps(vpOut.coerced)
                   /\ k \notin DOM(SetProps(vpOut.coerced))
                   /\ k \notin DOM(StoredAfterPatch(vpOut.coerced))
        /\ \A k \in GivenKeys \ NullKeys :
              LET c == coerce_value(vpIn.properties[k], vpIn.property_defs[k].data_type)
              IN  IF c.ok
                  THEN /\ k \in DOM(vpOut.coerced) /\ vpOut.coerced[k] = c.val
                       /\ k \notin DOM(vpOut.errors)
                       /\ StoredAfterPatch(vpOut.coerced)[k] = c.val
                  ELSE k \in DOM(vpOut.errors) /\ k \notin DOM(vpOut.coerced)

\* an update-mode call has returned where a is optional and null (a removal)
\* and b is required and absent
C3_Witness ==
    /\ vpIn.done /\ vpIn.partial
    /\ PropA \in NullKeys /\ ~vpIn.property_defs[PropA].required
    /\ PropB \in AbsentKeys /\ vpIn.property_defs[PropB].required
    /\ DOM(vpOut.errors) = {}
    /\ RemoveProps(vpOut.coerced) = {PropA}

\* ------------------------------------------------------------------------
\* C4
\* ------------------------------------------------------------------------

\* C4: in create mode, for every property definition, an input that maps a
\* defined key to null gets the same coerced map and the same field errors as
\* the same input with that key removed.
C4_NullIsNotProvided ==
    (vpIn.done /\ ~vpIn.partial) =>
        \A k \in NullKeys :
            vpOut = validate_properties(Without(vpIn.properties, {k}), vpIn.property_defs, FALSE)

\* ------------------------------------------------------------------------
\* C5
\* ------------------------------------------------------------------------

\* the keys of the input that violate the definitions, in the four ways the
\* service lists: unknown key, missing required property on create, required
\* property set to null on update, value that does not coerce
OffendingKeys ==
    UnknownKeys
    \cup {k \in AbsentKeys \cup NullKeys :
            /\ ~vpIn.partial /\ vpIn.property_defs[k].required
            /\ vpIn.property_defs[k].default_value = JNull}
    \cup {k \in NullKeys : vpIn.partial /\ vpIn.property_defs[k].required}
    \cup {k \in GivenKeys \ NullKeys :
            ~Coercible(vpIn.properties[k], vpIn.property_defs[k].data_type)}

\* C5: one call reports every violation: each offending key has an entry in
\* the error map and none in the coerced map, and an unknown input key always
\* has the 'unknown property' entry and never a coerced one.
C5_AllViolationsReported ==
    vpIn.done =>
        /\ \A k \in OffendingKeys : k \in DOM(vpOut.errors) /\ k \notin DOM(vpOut.coerced)
        /\ \A k \in UnknownKeys : vpOut.errors[k] = ErrUnknown

\* a call has returned on an input with three violations: an unknown key, a
\* value that does not coerce and a missing required property
C5_Witness ==
    /\ vpIn.done /\ ~vpIn.partial
    /\ OffendingKeys = {PropA, PropB, PropZ}
    /\ PropA \in GivenKeys \ NullKeys
    /\ PropB \in AbsentKeys
    /\ DOM(vpOut.errors) = {PropA, PropB, PropZ}

\* ------------------------------------------------------------------------
\* The instance store: what the claims read off a state
\* ------------------------------------------------------------------------

\* the entity / relation with this id is stored under this type key
EntityOfType(id, type_key) == id \in DOM(entities) /\ entities[id].typeKey = type_key
RelationOfType(id, type_key) == id \in DOM(relations) /\ relations[id].typeKey = type_key
EndpointKeys == {FromEntityIdKey, ToEntityIdKey}
\* the calls that name a type of the schema
TypedEntityCalls == {c \in EntityCalls : c[1] \in DOM(schema.entity_types)}
TypedRelationCalls == {c \in RelationCalls : c[1] \in DOM(schema.relation_types)}
\* a patch that fails validation against these definitions
PatchRejected(patch, property_defs) ==
    DOM(validate_properties(patch, property_defs, TRUE).errors) # {}
\* every response the read requests of the model can get in this state
ListResponses ==
    UNION {list_entities(tk, MaxEntities, 0, SortCreatedAt, "asc", NoQ, <<>>) : tk \in TypeKeyInputs}
    \cup UNION {list_relations(rtk, MaxRelations, 0, SortCreatedAt, "asc") :
                  rtk \in RelTypeKeyInputs}
NeighborResponses(c) ==
    UNION {get_neighbors(c[1], c[2], q[1], q[2], MaxRelations) : q \in NeighborQueries}

\* ------------------------------------------------------------------------
\* C1
\* ------------------------------------------------------------------------

\* C1: in every state the requests can reach, each stored relation has a
\* stored source entity and a stored target entity; and a delete_entity that
\* succeeds leaves no entity with that id and no relation whose source or
\* target is that id.
C1_EndpointsExist ==
    /\ \A r \in DOM(relations) :
          relations[r].from \in DOM(entities) /\ relations[r].to \in DOM(entities)
    /\ \A c \in EntityCalls :
          LET o == delete_entity(c[1], c[2])
          IN  o.resp.kind = "ok" =>
                /\ c[2] \notin DOM(o.entities)
                /\ \A r \in DOM(o.relations) :
                      o.relations[r].from # c[2] /\ o.relations[r].to # c[2]

\* a delete_entity has succeeded and took a relation with it: a relation id
\* was handed out, is no longer stored, and no delete_relation removed it
C1_Witness ==
    /\ \E e \in deletedIds : e \in 1..nextEntity
    /\ \E i \in 1..nextRelation : (0 - i) \notin DOM(relations) /\ (0 - i) \notin deletedIds

\* ------------------------------------------------------------------------
\* C6
\* ------------------------------------------------------------------------

\* the keys of a create body that do not validate against the definitions
BadProperties(body, property_defs) ==
    (DOM(body) \ DOM(property_defs))
    \cup {k \in DOM(body) \cap DOM(property_defs) :
            body[k] # JNull /\ ~Coercible(body[k], property_defs[k].data_type)}
    \cup {k \in DOM(property_defs) :
            /\ k \notin DOM(body) \/ body[k] = JNull
            /\ property_defs[k].required /\ property_defs[k].default_value = JNull}

\* the items of a create_relation request that fail
FailingItems(relation_type_key, from_entity_id, to_entity_id, body) ==
    LET rt == schema.relation_types[relation_type_key]
    IN  (IF EntityOfType(from_entity_id, rt.from_entity_type_key) THEN {} ELSE {FromEntityIdKey})
        \cup (IF EntityOfType(to_entity_id, rt.to_entity_type_key) THEN {} ELSE {ToEntityIdKey})
        \cup BadProperties(body, rt.properties)

\* C6: create_relation stores a relation exactly when the source exists with
\* the declared source type, the target exists with the declared target type
\* and the extra properties validate; the relation stored is the one asked for
\* and nothing else changes.  Otherwise the answer is one Validation error whose
\* fields are exactly the failing items (fromEntityId, toEntityId, every bad
\* property) and the store is unchanged.
C6_CreateRelation ==
    \A c \in RelationCreateCalls, body \in RelationBodies :
        c[1] \in DOM(schema.relation_types) =>
            LET o == create_relation(c[1], c[2], c[3], body)
                failing == FailingItems(c[1], c[2], c[3], body)
                id == o.resp.id
            IN  /\ o.entities = entities
                /\ IF failing = {}
                   THEN /\ o.resp.kind = "ok"
                        /\ id \notin DOM(relations)
                        /\ DOM(o.relations) = DOM(relations) \cup {id}
                        /\ \A r \in DOM(relations) : o.relations[r] = relations[r]
                        /\ o.relations[id].typeKey = c[1]
                        /\ o.relations[id].from = c[2] /\ o.relations[id].to = c[3]
                        /\ DOM(o.relations[id].props) = DOM(body)
                        /\ \A k \in DOM(body) :
                              o.relations[id].props[k] =
                                  coerce_value(body[k], schema.relation_types[c[1]]
                                                            .properties[k].data_type).val
                   ELSE /\ o.resp.kind = "Validation"
                        /\ DOM(o.resp.fields) = failing
                        /\ o.relations = relations

\* a relation is stored with its property r, and in this state a
\* create_relation request whose source and target have each the other's type
\* and whose body holds two bad properties is answered with all four field
\* errors
C6_Witness ==
    /\ \E r \in DOM(relations) : PropR \in DOM(relations[r].props)
    /\ \E c \in RelationCreateCalls, body \in RelationBodies :
          /\ c[1] = KeyW
          /\ EntityOfType(c[2], KeyAB)
          /\ EntityOfType(c[3], KeyP)
          /\ create_relation(c[1], c[2], c[3], body).resp.kind = "Validation"
          /\ DOM(create_relation(c[1], c[2], c[3], body).resp.fields)
                = {FromEntityIdKey, ToEntityIdKey, PropR, PropZ}

\* ------------------------------------------------------------------------
\* C7
\* ------------------------------------------------------------------------

\* C7: whatever the patch, update_relation leaves every relation's source and
\* target as they are; a patch holding fromEntityId / toEntityId is answered
\* exactly as the same patch without them, with no field error for either key,
\* and the property r it carries is stored.
C7_EndpointsImmutable ==
    \A c \in RelationCalls, patch \in RelationPatches :
        LET o == update_relation(c[1], c[2], patch)
        IN  /\ DOM(o.relations) = DOM(relations)
            /\ \A r \in DOM(relations) :
                  /\ o.relations[r].from = relations[r].from
                  /\ o.relations[r].to = relations[r].to
            /\ DOM(o.resp.fields) \cap EndpointKeys = {}
            /\ o = update_relation(c[1], c[2], Without(patch, EndpointKeys))
            /\ (RelationOfType(c[2], c[1]) /\ patch = EndpointsAndR) =>
                  /\ o.resp.kind = "ok"
                  /\ o.relations[c[2]].props = (PropR :> JInt(42))
                  /\ o.relations[c[2]].updatedAt = Now

\* a relation is stored without r and written earlier, so the patch that holds
\* fromEntityId and r changes it
C7_Witness ==
    \E r \in DOM(relations) :
        /\ relations[r].props = EmptyMap
        /\ relations[r].updatedAt = Earlier
        /\ update_relation(KeyW, r, EndpointsAndR).resp.kind = "ok"
        /\ update_relation(KeyW, r, EndpointsAndR).relations[r].from = relations[r].from

\* ------------------------------------------------------------------------
\* C8
\* ------------------------------------------------------------------------

\* C8: update_entity with an empty patch, and update_relation with an empty
\* patch or one holding only fromEntityId / toEntityId, leave the whole store
\* as it is, update timestamps included; the answer is the instance as stored
\* when it exists under that type and NotFound when it does not.
C8_NoopUpdate ==
    /\ \A c \in EntityCalls :
          LET o == update_entity(c[1], c[2], NoPatch)
          IN  /\ o.entities = entities /\ o.relations = relations
              /\ IF EntityOfType(c[2], c[1])
                 THEN o.resp.kind = "ok" /\ o.resp.view = <<EntityView(entities, c[2])>>
                 ELSE o.resp.kind = "NotFound"
    /\ \A c \in RelationCalls, patch \in {NoPatch, EndpointsOnly} :
          LET o == update_relation(c[1], c[2], patch)
          IN  /\ o.entities = entities /\ o.relations = relations
              /\ IF RelationOfType(c[2], c[1])
                 THEN o.resp.kind = "ok" /\ o.resp.view = <<RelationView(relations, c[2])>>
                 ELSE o.resp.kind = "NotFound"

\* an entity and a relation are stored that were written earlier (a write now
\* would show in their update timestamps), and an instance has been deleted
C8_Witness ==
    /\ \E e \in DOM(entities) :
          /\ entities[e].updatedAt = Earlier
          /\ update_entity(entities[e].typeKey, e, NoPatch).resp.kind = "ok"
    /\ \E r \in DOM(relations) :
          /\ relations[r].updatedAt = Earlier
          /\ update_relation(relations[r].typeKey, r, EndpointsOnly).resp.kind = "ok"
    /\ \E r \in deletedIds : update_relation(KeyW, r, NoPatch).resp.kind = "NotFound"

\* ------------------------------------------------------------------------
\* C9
\* ------------------------------------------------------------------------

\* what C9 says of every request but update
DeletedStaysDeleted ==
    /\ deletedIds \cap (DOM(entities) \cup DOM(relations)) = {}
    /\ \A c \in EntityCalls :
          c[2] \in deletedIds =>
             /\ get_entity(c[1], c[2]).resp.kind = "NotFound"
             /\ delete_entity(c[1], c[2]).resp.kind = "NotFound"
             /\ delete_entity(c[1], c[2]).entities = entities
             /\ \A response \in NeighborResponses(c) : response.kind = "NotFound"
    /\ \A c \in RelationCalls :
          c[2] \in deletedIds =>
             /\ get_relation(c[1], c[2]).resp.kind = "NotFound"
             /\ delete_relation(c[1], c[2]).resp.kind = "NotFound"
             /\ delete_relation(c[1], c[2]).relations = relations
    /\ \A response \in ListResponses :
          \A i \in 1..Len(response.items) : response.items[i] \notin deletedIds
    /\ \A c \in EntityCalls :
          \A response \in NeighborResponses(c) :
             \A i \in 1..Len(response.items) :
                /\ response.items[i].relation \notin deletedIds
                /\ response.items[i].entity \notin deletedIds

\* C9 as stated: once the delete of an id has succeeded, every get, update,
\* delete and get_neighbors for the id fails with NotFound, no list holds it,
\* and it is never stored again.
C9_DeletionTerminal_AsStated ==
    /\ DeletedStaysDeleted
    /\ \A c \in EntityCalls, patch \in EntityPatches :
          c[2] \in deletedIds => update_entity(c[1], c[2], patch).resp.kind = "NotFound"
    /\ \A c \in RelationCalls, patch \in RelationPatches :
          c[2] \in deletedIds => update_relation(c[1], c[2], patch).resp.kind = "NotFound"

\* C9 amended: once the delete of an id has succeeded, every get, delete and
\* get_neighbors for the id fails with NotFound; every update for the id fails
\* and changes nothing: with Validation when the type is defined and the patch
\* does not validate, with NotFound otherwise; no list or neighbour result holds
\* the id, and it is never stored again.
C9_DeletionTerminal ==
    /\ DeletedStaysDeleted
    /\ \A c \in EntityCalls, patch \in EntityPatches :
          c[2] \in deletedIds =>
             LET o == update_entity(c[1], c[2], patch)
             IN  /\ o.entities = entities /\ o.relations = relations
                 /\ o.resp.kind =
                      IF /\ c \in TypedEntityCalls
                         /\ PatchRejected(patch, schema.entity_types[c[1]].properties)
                      THEN "Validation" ELSE "NotFound"
    /\ \A c \in RelationCalls, patch \in RelationPatches :
          c[2] \in deletedIds =>
             LET o == update_relation(c[1], c[2], patch)
             IN  /\ o.entities = entities /\ o.relations = relations
                 /\ o.resp.kind =
                      IF /\ c \in TypedRelationCalls
                         /\ PatchRejected(Without(patch, EndpointKeys),
                                          schema.relation_types[c[1]].properties)
                      THEN "Validation" ELSE "NotFound"

\* an entity and a relation have each been deleted by their own request, and
\* another entity is still stored
C9_Witness ==
    /\ \E e \in deletedIds : e \in 1..nextEntity
    /\ \E r \in deletedIds : r \in {0 - i : i \in 1..nextRelation}
    /\ DOM(entities) # {}

\* ------------------------------------------------------------------------
\* C10
\* ------------------------------------------------------------------------

\* C10: a delete_relation that succeeds was asked for a stored relation of
\* that type, and leaves the entities as they are and the relations as they
\* are but for that one.
C10_DeleteRelationFrame ==
    \A c \in RelationCalls :
        LET o == delete_relation(c[1], c[2])
        IN  IF RelationOfType(c[2], c[1])
            THEN /\ o.resp.kind = "ok"
                 /\ o.entities = entities
                 /\ o.relations = Without(relations, {c[2]})
            ELSE /\ o.resp.kind = "NotFound"
                 /\ o.entities = entities /\ o.relations = relations

\* two relations between the same two entities are stored, and deleting one
\* of them succeeds
C10_Witness ==
    \E r1, r2 \in DOM(relations) :
        /\ r1 # r2
        /\ relations[r1].from = relations[r2].from /\ relations[r1].to = relations[r2].to
        /\ delete_relation(KeyW, r1).resp.kind = "ok"
        /\ r2 \in DOM(delete_relation(KeyW, r1).relations)

\* ------------------------------------------------------------------------
\* The modeling service changes the stored schema while the runtime serves
\* ------------------------------------------------------------------------

\* "a__b": a second key that satisfies KEY_PATTERN and has the label of "a_b"
KeyA_B == <<"a", "_", "_", "b">>
PropQ == <<"q">>
\* "entity_type": a key that satisfies KEY_PATTERN and has the label of the
\* schema nodes (:EntityType)
KeyEntityType == <<"e", "n", "t", "i", "t", "y", "_", "t", "y", "p", "e">>

SchemaOutcome(kind, stored) == [kind |-> kind, schema |-> stored]

\* modeling service: a key is refused only when the ontology already holds it
create_entity_type(key) ==
    IF key \in DOM(schema.entity_types)
    THEN SchemaOutcome("Conflict", schema)
    ELSE SchemaOutcome("ok", [schema EXCEPT !.entity_types =
                                 @ @@ (key :> [properties |-> EmptyMap])])

create_property(type_key, key, prop_def) ==
    IF type_key \notin DOM(schema.entity_types)
    THEN SchemaOutcome("NotFound", schema)
    ELSE IF key \in DOM(schema.entity_types[type_key].properties)
    THEN SchemaOutcome("Conflict", schema)
    ELSE SchemaOutcome("ok", [schema EXCEPT !.entity_types[type_key].properties =
                                 @ @@ (key :> prop_def)])

NewPropertyDefs == {PropertyDef("string", TRUE, JNull), PropertyDef("integer", FALSE, JNull)}

\* the last request to the modeling service, and whether invalidation followed
ModelingCall(op, type_key, key, kind) ==
    [op |-> op, type_key |-> type_key, key |-> key, kind |-> kind]

ModelingStep(op, type_key, key, outcome) ==
    /\ schema' = outcome.schema
    /\ call' = ModelingCall(op, type_key, key, outcome.kind)
    /\ UNCHANGED <<entities, relations, nextEntity, nextRelation, deletedIds, vpIn, vpOut,
                   embeddings, result>>

\* POST .../entity-types
CreateEntityType ==
    \E key \in {KeyA_B, KeyP, KeyEntityType} :
        ModelingStep("create_entity_type", key, <<>>, create_entity_type(key))

\* POST .../properties: the modeling service writes and returns
CreateProperty ==
    \E key \in {PropQ, PropN}, prop_def \in NewPropertyDefs :
        ModelingStep("create_property", KeyP, key, create_property(KeyP, key, prop_def))

\* the add_property tool: the same write followed by _invalidate_schema_cache,
\* which has nothing to reload in a runtime that reads the schema on every call
AddProperty ==
    \E key \in {PropQ, PropN}, prop_def \in NewPropertyDefs :
        ModelingStep("add_property", KeyP, key, create_property(KeyP, key, prop_def))

NextModeling ==
    \/ Next
    \/ CreateEntityType
    \/ CreateProperty
    \/ AddProperty

SpecModeling == Init /\ [][NextModeling]_vars

\* ------------------------------------------------------------------------
\* C11
\* ------------------------------------------------------------------------

\* C11: for every type T of the schema and every stored entity whose own type
\* key is another type of the schema, get_entity and delete_entity under T
\* answer NotFound, update_entity under T with a patch that T's definitions
\* accept answers NotFound, and none of them changes the store.
C11_ScopedByType ==
    \A c \in TypedEntityCalls :
        (c[2] \in DOM(entities) /\ entities[c[2]].typeKey # c[1]) =>
            /\ get_entity(c[1], c[2]).resp.kind = "NotFound"
            /\ delete_entity(c[1], c[2]).resp.kind = "NotFound"
            /\ delete_entity(c[1], c[2]).entities = entities
            /\ delete_entity(c[1], c[2]).relations = relations
            /\ \A patch \in EntityPatches :
                  ~PatchRejected(patch, schema.entity_types[c[1]].properties) =>
                      /\ update_entity(c[1], c[2], patch).resp.kind = "NotFound"
                      /\ update_entity(c[1], c[2], patch).entities = entities

\* ------------------------------------------------------------------------
\* C19
\* ------------------------------------------------------------------------

\* C19: when the last modeling request added a property through add_property
\* (invalidation invoked), the runtime validates against a schema that holds
\* the property; when it added one through the modeling service alone (no
\* invalidation), the runtime validates against a schema that does not hold it.
C19_SchemaCacheInvalidation ==
    (call # <<>> /\ call.kind = "ok") =>
        /\ call.op = "add_property" =>
              call.key \in DOM(_load_schema.entity_types[call.type_key].properties)
        /\ call.op = "create_property" =>
              /\ call.key \notin DOM(_load_schema.entity_types[call.type_key].properties)
              /\ \A body \in EntityBodies :
                    PropN \in DOM(body) /\ body[PropN] = JStr("abc") /\ DOM(body) = {PropN} =>
                        create_entity(call.type_key, body).resp.kind = "ok"

\* ------------------------------------------------------------------------
\* Data wipe
\* ------------------------------------------------------------------------

\* repository.wipe_instance_data(session, entity_type_keys): every instance
\* node of the given entity types is removed together with its relationships;
\* returns the store left and the two counts
repo_wipe_instance_data(ents, rels, entity_type_keys) ==
    LET wiped == {i \in DOM(ents) : ents[i].typeKey \in entity_type_keys}
        gone == {r \in DOM(rels) : rels[r].from \in wiped \/ rels[r].to \in wiped}
    IN  [entities |-> [i \in DOM(ents) \ wiped |-> ents[i]],
         relations |-> [r \in DOM(rels) \ gone |-> rels[r]],
         entities_deleted |-> Cardinality(wiped),
         relations_deleted |-> Cardinality(gone)]

DataWipeResponse(entities_deleted, relations_deleted) ==
    [op |-> "wipe_instance_data", kind |-> "ok",
     entitiesDeleted |-> entities_deleted, relationsDeleted |-> relations_deleted]

\* wipe_instance_data with a slip: the two counts are reported in each other's place
wipe_instance_data_SwapsCounts ==
    LET cache == _load_schema
        wiped == repo_wipe_instance_data(entities, relations, DOM(cache.entity_types))
    IN  [resp |-> DataWipeResponse(wiped.relations_deleted, wiped.entities_deleted),
         entities |-> wiped.entities, relations |-> wiped.relations,
         nextEntity |-> nextEntity, nextRelation |-> nextRelation, deletedIds |-> deletedIds]

wipe_instance_data ==
    LET cache == _load_schema
        wiped == repo_wipe_instance_data(entities, relations, DOM(cache.entity_types))
    IN  [resp |-> DataWipeResponse(wiped.entities_deleted, wiped.relations_deleted),
         entities |-> wiped.entities, relations |-> wiped.relations,
         nextEntity |-> nextEntity, nextRelation |-> nextRelation, deletedIds |-> deletedIds]

\* DELETE /data
WipeData == \E outcome \in {wipe_instance_data} : Serve(outcome)

NextWipe ==
    \/ Next
    \/ WipeData

SpecWipe == Init /\ [][NextWipe]_vars

\* ------------------------------------------------------------------------
\* C20
\* ------------------------------------------------------------------------

\* C20: a wipe leaves no entity and no relation, so that afterwards every list
\* of every entity type and relation type has total 0 and no items; it leaves
\* the schema as it is; and the entitiesDeleted and relationsDeleted it reports
\* are the numbers of entities and relations stored just before it.
C20_WipeFrame ==
    [][WipeData =>
          /\ DOM(entities') = {} /\ DOM(relations') = {}
          /\ \A tk \in DOM(schema.entity_types) :
                \A response \in list_entities(tk, MaxEntities, 0, SortCreatedAt, "asc", NoQ, <<>>)' :
                    response = Listed(response.op, <<>>, 0)
          /\ \A rtk \in DOM(schema.relation_types) :
                \A response \in list_relations(rtk, MaxRelations, 0, SortCreatedAt, "asc")' :
                    response = Listed(response.op, <<>>, 0)
          /\ schema' = schema
          /\ wipe_instance_data.resp.entitiesDeleted = Cardinality(DOM(entities))
          /\ wipe_instance_data.resp.relationsDeleted = Cardinality(DOM(relations))
          /\ nextEntity' = nextEntity /\ nextRelation' = nextRelation
      ]_vars

\* a wipe has removed two entities and a relation between them: nothing is
\* stored although two entity ids and a relation id were handed out and no
\* delete request has succeeded
C20_Witness ==
    /\ nextEntity = 2 /\ nextRelation = 1
    /\ DOM(entities) = {} /\ DOM(relations) = {}
    /\ deletedIds = {}

\* ------------------------------------------------------------------------
\* The query helpers on their own: one call on drawn arguments
\* ------------------------------------------------------------------------

MaxFilters == 2

FilterExprs ==
    {PropK, PropK \o Sep \o OpGt, PropK \o Sep \o OpLte, PropN, PropN \o Sep \o OpContains,
     PropZ, PropK \o Sep \o OpBad, PropK \o Sep}
FilterValues == {JStr("42"), JStr("7"), JStr("abc")}

RECURSIVE FilterMaps(_)
\* the filter dicts of at most n entries: no expression twice
FilterMaps(n) ==
    IF n = 0 THEN {<<>>}
    ELSE FilterMaps(n - 1)
         \cup {Append(f, <<e, v>>) :
                 f \in {g \in FilterMaps(n - 1) : Len(g) = n - 1},
                 e \in FilterExprs, v \in FilterValues}

FilterInputs ==
    {f \in FilterMaps(MaxFilters) : \A i, j \in 1..Len(f) : i # j => f[i][1] # f[j][1]}

\* the listed type with one more property, whose key k__in holds "__"
KeyedPropertyDefs ==
    ListedPropertyDefs @@ (PropK \o Sep \o OpBad :> PropertyDef("integer", FALSE, JNull))
FilterPropertyDefs == {ListedPropertyDefs, KeyedPropertyDefs}

FilterCall(filters, property_defs) ==
    [fn |-> "_build_filter_clauses", filters |-> filters, property_defs |-> property_defs]

BuildFilterClauses ==
    /\ call # <<>> /\ call.fn = "_build_filter_clauses" /\ result = <<>>
    /\ result' = _build_filter_clauses(call.filters, call.property_defs, "n")
    /\ UNCHANGED <<entities, relations, nextEntity, nextRelation, deletedIds, schema, vpIn,
                   vpOut, embeddings, call>>

\* the keys of a filter dict, in order
FilterKeys(filters) == [i \in 1..Len(filters) |-> filters[i][1]]

\* the placeholder a fragment names: the piece after the "$"
Placeholder(fragment) == fragment[6]

\* C14: for every filter map the builder accepts, there are as many predicate
\* fragments as filter entries, the i-th value is bound to its own placeholder
\* flt_(i-1) and to nothing else, and every accepted filter map with the same
\* keys and operators, whatever its values, yields the same fragments.
C14_PredicateIndependentOfValues ==
    (call # <<>> /\ call.fn = "_build_filter_clauses" /\ result # <<>> /\ result.ok) =>
        /\ Len(result.where_clauses) = Len(call.filters)
        /\ DOM(result.params) = {ParamName(i - 1) : i \in 1..Len(call.filters)}
        /\ \A i \in 1..Len(call.filters) :
              /\ Placeholder(result.where_clauses[i]) = ParamName(i - 1)
              /\ \A j \in 1..Len(call.filters) :
                    i # j => Placeholder(result.where_clauses[i]) # Placeholder(result.where_clauses[j])
              /\ PyStr(result.params[ParamName(i - 1)]) = call.filters[i][2].s
        /\ \A other \in FilterInputs :
              LET built == _build_filter_clauses(other, call.property_defs, "n")
              IN  (FilterKeys(other) = FilterKeys(call.filters) /\ built.ok) =>
                      built.where_clauses = result.where_clauses

\* two entries are accepted, and another accepted map has the same keys and
\* other values
C14_Witness ==
    /\ call # <<>> /\ call.fn = "_build_filter_clauses" /\ result # <<>> /\ result.ok
    /\ Len(call.filters) = 2
    /\ \E other \in FilterInputs :
          /\ FilterKeys(other) = FilterKeys(call.filters)
          /\ \A i \in 1..2 : other[i][2] # call.filters[i][2]
          /\ _build_filter_clauses(other, call.property_defs, "n").ok

\* ------------------------------------------------------------------------
\* The limit of a list request, on each surface
\* ------------------------------------------------------------------------

\* le=200 / min(limit, 200)
MaxLimit == 200
\* ge=1 / max(1, limit)
MinLimit == 1
\* how far outside [MinLimit, MaxLimit] the drawn limits go
LimitMargin == 2

LimitInputs == (MinLimit - LimitMargin)..(MaxLimit + LimitMargin)
ListOps == {"list_entities", "list_relations", "get_neighbors"}
Surfaces == {"rest", "mcp"}

Max2(a, b) == IF a > b THEN a ELSE b

\* what the service is called with: served, and the limit it hands to the
\* storage query unchanged
LimitOutcome(served, limit) == [served |-> served, limit |-> limit]

\* Query(default=50, ge=1, le=200): a limit outside the range is answered 422
\* and the handler does not run
rest_limit(limit) ==
    IF limit < MinLimit \/ limit > MaxLimit THEN LimitOutcome(FALSE, 0)
    ELSE LimitOutcome(TRUE, limit)

\* the tool's clamp without the lower bound
mcp_limit_NoFloor(limit) == LimitOutcome(TRUE, Min(limit, MaxLimit))

\* limit = max(1, min(limit, 200))
mcp_limit(limit) == LimitOutcome(TRUE, Max2(MinLimit, Min(limit, MaxLimit)))

LimitCall(surface, op, limit) == [fn |-> "limit", surface |-> surface, op |-> op, limit |-> limit]

ServeLimit ==
    /\ call # <<>> /\ call.fn = "limit" /\ result = <<>>
    /\ result' = IF call.surface = "rest" THEN rest_limit(call.limit) ELSE mcp_limit(call.limit)
    /\ UNCHANGED <<entities, relations, nextEntity, nextRelation, deletedIds, schema, vpIn,
                   vpOut, embeddings, call>>

LimitServed == call # <<>> /\ call.fn = "limit" /\ result # <<>>

\* C15 as stated: on either surface, any caller-supplied limit is served, with
\* the limit clamped to max(1, min(limit, 200)).
C15_ClampedOnBothSurfaces ==
    LimitServed =>
        /\ result.served
        /\ result.limit = Max2(1, Min(call.limit, 200))

\* C15 as amended: the tool surface serves every limit clamped to
\* max(1, min(limit, 200)); the REST surface serves a limit within [1, 200]
\* unchanged and refuses any other limit without running the handler; the limit
\* that reaches the storage query is always within [1, 200].
C15_LimitWithinRange ==
    LimitServed =>
        /\ call.surface = "mcp" =>
              result.served /\ result.limit = Max2(1, Min(call.limit, 200))
        /\ call.surface = "rest" =>
              /\ result.served <=> call.limit \in 1..200
              /\ result.served => result.limit = call.limit
        /\ result.served => result.limit \in 1..200

\* the tool surface was given a limit below 1
C15_Witness ==
    /\ LimitServed /\ call.surface = "mcp" /\ call.limit < 1
    /\ result.served /\ result.limit = 1

\* ------------------------------------------------------------------------
\* Semantic search: how many candidates the similarity index is asked for
\* ------------------------------------------------------------------------

\* over-fetch: min(limit * 5, 500)
OverFetchFactor == 5
OverFetchCap == 500
\* the longest similarity index drawn
MaxIndexed == 3

SearchLimits == 1..((OverFetchCap \div OverFetchFactor) + LimitMargin)
SearchFilters == {<<>>, <<<<PropN, JStr("abc")>>>>, <<<<PropK \o Sep \o OpGt, JStr("7")>>>>, <<<<PropZ, JStr("abc")>>>>}
Providers == {"none", "fails", "ok"}

RECURSIVE Flags(_)
\* the index of one type in score order: whether each hit satisfies the filters
Flags(n) == IF n = 0 THEN {<<>>} ELSE Flags(n - 1) \cup {Append(f, b) : f \in {g \in Flags(n - 1) : Len(g) = n - 1}, b \in BOOLEAN}

SearchFailure(kind) == [kind |-> kind, vector_limit |-> 0, results |-> <<>>]

\* the candidate count without the cap
VectorLimit_Uncapped(limit, filters) == IF filters # <<>> THEN limit * OverFetchFactor ELSE limit

\* the number of candidates requested from the index
VectorLimit(limit, filters) ==
    IF filters # <<>> THEN Min(limit * OverFetchFactor, OverFetchCap) ELSE limit

IsTrue(b) == b

\* the storage query: the first vector_limit hits, those that satisfy the
\* predicates, cut to limit
repo_semantic_search(index, where_clauses, vector_limit, limit) ==
    LET candidates == SubSeq(index, 1, Min(Len(index), vector_limit))
        kept == IF where_clauses = <<>> THEN candidates ELSE SelectSeq(candidates, IsTrue)
    IN  SubSeq(kept, 1, Min(Len(kept), limit))

semantic_search(provider, entity_type_key, limit, filters, index) ==
    IF provider = "none" THEN SearchFailure("ValidationError")
    ELSE IF entity_type_key \notin DOM(schema.entity_types) THEN SearchFailure("NotFound")
    ELSE IF provider = "fails" THEN SearchFailure("ValidationError")
    ELSE LET built == _build_filter_clauses(filters, ListedPropertyDefs, "node")
             vector_limit == VectorLimit(limit, filters)
         IN  IF ~built.ok THEN SearchFailure("ValidationError")
             ELSE [kind |-> "ok", vector_limit |-> vector_limit,
                   results |-> repo_semantic_search(index, built.where_clauses, vector_limit, limit)]

SearchCall(provider, entity_type_key, limit, filters, index) == [fn |-> "semantic_search", provider |-> provider, entity_type_key |-> entity_type_key, limit |-> limit, filters |-> filters, index |-> index]

SemanticSearch ==
    /\ call # <<>> /\ call.fn = "semantic_search" /\ result = <<>>
    /\ result' = semantic_search(call.provider, call.entity_type_key, call.limit, call.filters, call.index)
    /\ UNCHANGED <<entities, relations, nextEntity, nextRelation, deletedIds, schema, vpIn,
                   vpOut, embeddings, call>>

Searched == call # <<>> /\ call.fn = "semantic_search" /\ result # <<>> /\ result.kind = "ok"

\* C16: a search that runs with limit L asks the index for exactly
\* min(L * 5, 500) candidates when at least one filter accompanies it and for
\* exactly L candidates when none does, and returns at most L results.
C16_OverFetch ==
    Searched =>
        /\ call.filters # <<>> => result.vector_limit = Min(call.limit * 5, 500)
        /\ call.filters = <<>> => result.vector_limit = call.limit
        /\ Len(result.results) <= call.limit

\* a filtered search above the cap
C16_Witness ==
    /\ Searched /\ call.filters # <<>>
    /\ call.limit * 5 > 500 /\ result.vector_limit = 500

QueryCalls ==
    {FilterCall(f, d) : f \in FilterInputs, d \in FilterPropertyDefs}
    \cup {LimitCall(s, op, l) : s \in Surfaces, op \in ListOps, l \in LimitInputs}
    \cup {SearchCall(p, tk, l, f, ix) : p \in Providers, tk \in {KeyP, KeyX}, l \in SearchLimits, f \in SearchFilters, ix \in Flags(MaxIndexed)}

InitQuery ==
    /\ call \in QueryCalls
    /\ result = <<>>
    /\ entities = [i \in {} |-> 0] /\ relations = [i \in {} |-> 0]
    /\ nextEntity = 0 /\ nextRelation = 0 /\ deletedIds = {}
    /\ schema = Ontology
    /\ vpIn = NoCall /\ vpOut = NoResult
    /\ embeddings = [i \in {} |-> 0]

NextQuery == \/ BuildFilterClauses \/ ServeLimit \/ SemanticSearch

SpecQuery == InitQuery /\ [][NextQuery]_vars

\* ------------------------------------------------------------------------
\* Reads over a fixed store: listing and traversal of stores that creates built
\* ------------------------------------------------------------------------

KeyV == <<"v">>

\* A stored schema: entity type p has a required string n and an optional
\* integer k; relation type v (p -> p) has no properties.
OntologyRead ==
    [entity_types |-> (KeyP :> [properties |-> ListedPropertyDefs]),
     relation_types |->
        (KeyV :> [from_entity_type_key |-> KeyP, to_entity_type_key |-> KeyP,
                  properties |-> EmptyMap])]

\* the most entities of a listed store, the most relations of a linked store
MaxListed == 3
MaxLinks == 3

ListedBodies ==
    {PropN :> JStr("abc"),
     (PropN :> JStr("abc")) @@ (PropK :> JInt(7)),
     (PropN :> JStr("xyz")) @@ (PropK :> JInt(42))}

RECURSIVE EntityStores(_)
\* the stores n creates of type p leave
EntityStores(n) ==
    IF n = 0 THEN {[i \in {} |-> 0]}
    ELSE {repo_create_entity(st, KeyP, to_pascal_case(KeyP), n, body, Earlier) :
            st \in EntityStores(n - 1), body \in ListedBodies}

TwoEntities ==
    repo_create_entity(repo_create_entity([i \in {} |-> 0], KeyP, to_pascal_case(KeyP), 1, PropN :> JStr("abc"), Earlier), KeyP, to_pascal_case(KeyP), 2, PropN :> JStr("xyz"), Earlier)

RECURSIVE LinkStores(_)
\* the relations m creates of type v between the two entities leave
LinkStores(m) ==
    IF m = 0 THEN {[i \in {} |-> 0]}
    ELSE {repo_create_relation(TwoEntities, st, KeyV, to_upper_snake_case(KeyV), 0 - m, from, to, EmptyMap, Earlier) :
            st \in LinkStores(m - 1), from \in {1, 2}, to \in {1, 2}}

InitRead ==
    /\ schema = OntologyRead
    /\ \/ \E n \in 0..MaxListed :
            /\ entities \in EntityStores(n) /\ nextEntity = n
            /\ relations = [i \in {} |-> 0] /\ nextRelation = 0
       \/ \E m \in 1..MaxLinks :
            /\ entities = TwoEntities /\ nextEntity = 2
            /\ relations \in LinkStores(m) /\ nextRelation = m
    /\ deletedIds = {}
    /\ vpIn = NoCall /\ vpOut = NoResult
    /\ embeddings = [i \in {} |-> 0]
    /\ call = <<>> /\ result = <<>>

ListLimits == 1..MaxListed
ListOffsets == 0..MaxListed
\* (sort, order, q, filters) of a list request
ListQueries ==
    {<<SortCreatedAt, "asc", NoQ, <<>>>>,
     <<PropK, "asc", NoQ, <<>>>>,
     <<PropK, "desc", NoQ, <<>>>>,
     <<PropN, "asc", NoQ, <<<<PropK \o Sep \o OpGt, JStr("7")>>>>>>,
     <<PropK, "desc", NoQ, <<<<PropN, JStr("abc")>>>>>>,
     <<PropK, "asc", NoQ, <<<<PropK \o Sep \o OpLte, JStr("42")>>, <<PropN \o Sep \o OpContains, JStr("abc")>>>>>>,
     <<<<"updatedAt">>, "asc", "B", <<>>>>,
     <<PropK, "asc", "B", <<<<PropK, JStr("7")>>>>>>,
     <<PropZ, "asc", NoQ, <<>>>>,
     <<PropK, "asc", NoQ, <<<<PropK, JStr("abc")>>>>>>}

NeighborLimits == 1..(MaxLinks + 1)
NeighborCalls == {KeyP} \X {1, 2} \X {"both", "outgoing", "incoming"} \X {<<>>, KeyV}

ListEntitiesRead ==
    \E tk \in {KeyP, KeyX}, limit \in ListLimits, offset \in ListOffsets, lq \in ListQueries :
        \E response \in list_entities(tk, limit, offset, lq[1], lq[2], lq[3], lq[4]) :
            Serve(Kept(response))

GetNeighborsRead ==
    \E c \in NeighborCalls, limit \in NeighborLimits :
        \E response \in get_neighbors(c[1], c[2], c[3], c[4], limit) :
            Serve(Kept(response))

NextRead == \/ ListEntitiesRead \/ GetNeighborsRead

SpecRead == InitRead /\ [][NextRead]_vars

\* the matching relations that leave / enter the entity
OutCount(entity_id) == Cardinality({r \in DOM(relations) : relations[r].from = entity_id})
InCount(entity_id) == Cardinality({r \in DOM(relations) : relations[r].to = entity_id})

\* C12: getNeighbors with direction both and limit L returns min(L, out)
\* outgoing entries followed by min(L - min(L, out), in) incoming entries, so
\* at most L entries with every outgoing entry before every incoming one, and
\* it issues no incoming lookup when the outgoing results fill L.
C12_BothSplitsLimit ==
    \A entity_id \in DOM(entities), L \in NeighborLimits :
        LET no == Min(L, OutCount(entity_id))
            ni == Min(L - no, InCount(entity_id))
        IN  /\ \A response \in get_neighbors(KeyP, entity_id, "both", <<>>, L) :
                  /\ response.kind = "ok"
                  /\ Len(response.items) = no + ni
                  /\ Len(response.items) <= L
                  /\ \A i \in 1..Len(response.items) :
                        /\ response.items[i].direction = IF i <= no THEN "outgoing" ELSE "incoming"
                        /\ i <= no => relations[response.items[i].relation].from = entity_id
                        /\ i > no => relations[response.items[i].relation].to = entity_id
                  /\ \A i, j \in 1..Len(response.items) :
                        (i # j /\ response.items[i].direction = response.items[j].direction) =>
                            response.items[i].relation # response.items[j].relation
            /\ \A run \in repo_get_neighbors_run(entities, relations, entity_id, "both", <<>>, L) :
                  no = L => run.queries = <<"outgoing">>

\* an entity with more outgoing relations than one and incoming ones too
C12_Witness ==
    \E entity_id \in DOM(entities) :
        /\ OutCount(entity_id) = 2 /\ InCount(entity_id) >= 2
        /\ \E response \in get_neighbors(KeyP, entity_id, "both", <<>>, 3) :
              /\ Len(response.items) = 3
              /\ response.items[3].direction = "incoming"

\* what a filter entry of the list requests asks of a node's properties
FilterMeaning(expr, value, props) ==
    CASE expr = PropK -> PropK \in DOM(props) /\ props[PropK].n = IntOfStr(value.s)
      [] expr = PropK \o Sep \o OpGt -> PropK \in DOM(props) /\ props[PropK].n > IntOfStr(value.s)
      [] expr = PropK \o Sep \o OpLte -> PropK \in DOM(props) /\ props[PropK].n <= IntOfStr(value.s)
      [] expr = PropN -> props[PropN].s = value.s
      [] expr = PropN \o Sep \o OpContains -> props[PropN].s = value.s
      [] OTHER -> FALSE

\* the entities of type p a list request asks for
Wanted(q, filters) ==
    {i \in DOM(entities) :
        /\ entities[i].typeKey = KeyP
        /\ \A e \in 1..Len(filters) : FilterMeaning(filters[e][1], filters[e][2], entities[i].props)
        /\ q = "B" => entities[i].props[PropN].s = "abc"}

\* the sort key of an entity: a number; a missing value sorts after every value
SortKey(i, sort) ==
    IF sort = PropK THEN (IF PropK \in DOM(entities[i].props) THEN entities[i].props[PropK].n ELSE 1000)
    ELSE IF sort = PropN THEN (IF entities[i].props[PropN].s = "abc" THEN 1 ELSE 2)
    ELSE 0

InOrder(o, sort, order) ==
    \A i, j \in 1..Len(o) :
        i < j => IF order = "asc" THEN SortKey(o[i], sort) <= SortKey(o[j], sort)
                 ELSE SortKey(o[i], sort) >= SortKey(o[j], sort)

\* the list requests the service accepts
AcceptedListQueries ==
    {lq \in ListQueries : lq[1] # PropZ /\ \A e \in 1..Len(lq[4]) : lq[4][e] # <<PropK, JStr("abc")>>}

\* C13: for a fixed store, every accepted list request with limit and offset
\* returns as total the number of entities of the type that match the filters,
\* whatever the limit and offset, and as items positions [offset, offset+limit)
\* of those entities in an order sorted by the requested field and direction.
C13_PageOfSortedMatches ==
    \A lq \in AcceptedListQueries, limit \in ListLimits, offset \in ListOffsets :
        \A response \in list_entities(KeyP, limit, offset, lq[1], lq[2], lq[3], lq[4]) :
            /\ response.kind = "ok"
            /\ response.id = Cardinality(Wanted(lq[3], lq[4]))
            /\ \E o \in Orderings(Wanted(lq[3], lq[4])) :
                  /\ InOrder(o, lq[1], lq[2])
                  /\ response.items = SubSeq(o, offset + 1, Min(Len(o), offset + limit))

\* a filter leaves some entity out, and a page that starts after the first
\* match holds fewer entities than match
C13_Witness ==
    \E lq \in AcceptedListQueries :
        /\ lq[4] # <<>> /\ lq[1] = PropK
        /\ Wanted(lq[3], lq[4]) # DOM(entities)
        /\ \E response \in list_entities(KeyP, 1, 1, lq[1], lq[2], lq[3], lq[4]) :
              /\ Len(response.items) = 1
              /\ response.id = 2

\* ------------------------------------------------------------------------
\* Similarity vectors: the embedding provider and the entities it serves
\* ------------------------------------------------------------------------

\* what the HTTP call of the provider does
HttpOutcomes == {"ok", "post_raises", "status_error", "no_embedding_key"}

NoVector == <<>>
\* the vector the provider computes for a text
Vector(text) == <<[k |-> "vector", n |-> Cardinality(DOM(text.parts)), s |-> ""]>>

EmbedResult(raised, vector) == [raised |-> raised, vector |-> vector]

\* embed without its except clause
embed_Propagates(text, http) ==
    IF http = "ok" THEN EmbedResult(FALSE, Vector(text)) ELSE EmbedResult(TRUE, NoVector)

\* OllamaEmbeddingProvider.embed: any exception is logged and None returned
embed(text, http) ==
    IF http = "ok" THEN EmbedResult(FALSE, Vector(text)) ELSE EmbedResult(FALSE, NoVector)

\* the text of an entity: the type key and the string properties that are
\* present and not null (the texts of the model are far below the cap)
build_text_repr(entity_type_key, properties, property_defs) ==
    [type |-> entity_type_key,
     parts |-> [k \in {k \in DOM(property_defs) :
                         /\ property_defs[k].data_type = "string"
                         /\ k \in DOM(properties) /\ properties[k] # JNull} |-> properties[k]]]

InternalError(op) == Response(op, "Internal", 0, NoFields, <<>>, <<>>)

\* create_entity with the embedding step: when a provider is configured the
\* text is embedded, and the vector, if there is one, is stored with the node
create_entity_with_embedding(entity_type_key, body, configured, http) ==
    LET base == create_entity(entity_type_key, body)
        cache == _load_schema
    IN  IF base.resp.kind # "ok" \/ ~configured
        THEN [outcome |-> base, embeddings |-> embeddings]
        ELSE LET text == build_text_repr(entity_type_key, base.entities[base.nextEntity].props,
                                         cache.entity_types[entity_type_key].properties)
                 embedding == embed(text, http)
             IN  IF embedding.raised
                 THEN [outcome |-> Kept(InternalError("create_entity")), embeddings |-> embeddings]
                 ELSE IF embedding.vector = NoVector
                 THEN [outcome |-> base, embeddings |-> embeddings]
                 ELSE [outcome |-> base,
                       embeddings |-> [i \in DOM(embeddings) \cup {base.nextEntity} |->
                                          IF i = base.nextEntity THEN embedding.vector[1]
                                          ELSE embeddings[i]]]

EmbeddingKey == <<"_embedding">>

\* n {.*} of a node that may carry a vector
StoredNode(ents, embs, id) ==
    [EntityView(ents, id) EXCEPT
        !.props = [k \in DOM(@) \cup (IF id \in DOM(embs) THEN {EmbeddingKey} ELSE {}) |->
                      IF k = EmbeddingKey THEN embs[id] ELSE @[k]]]

\* the read boundary without the stripping
strip_embedding_Keeps(node) == node

\* the read boundary: the vector is removed from every node read
strip_embedding(node) == [node EXCEPT !.props = [k \in DOM(@) \ {EmbeddingKey} |-> @[k]]]

\* no projection requested
AllFields == {<<"*">>}
\* only the listed fields (plus the id) are returned
project_fields(node, fields) ==
    IF fields = AllFields THEN node
    ELSE [node EXCEPT !.props = [k \in DOM(@) \cap fields |-> @[k]]]

Projections == {AllFields, {PropN}, {EmbeddingKey}, {PropN, EmbeddingKey}}

\* the entities a response names: the entity itself, the rows of a list, the
\* centre and the neighbours of a traversal
ResponseEntityIds(response) ==
    IF response.kind # "ok" THEN {}
    ELSE IF response.op = "list_entities" THEN {response.items[i] : i \in 1..Len(response.items)}
    ELSE IF response.op = "get_neighbors"
    THEN {response.view[1].id} \cup {response.items[i].entity : i \in 1..Len(response.items)}
    ELSE {response.view[i].id : i \in 1..Len(response.view)}

\* the entities as the caller receives them
ReturnedEntities(ents, embs, ids, fields) ==
    {project_fields(strip_embedding(StoredNode(ents, embs, id)), fields) : id \in ids}

\* the hits of a semantic search: entities of the type that carry a vector
SearchHits(entity_type_key) ==
    {i \in DOM(entities) : entities[i].typeKey = entity_type_key /\ i \in DOM(embeddings)}

\* what a handler hands to its caller: the entities of its response, read
\* through the boundary from the store the request leaves
Returns(outcome, embs, fields) ==
    ReturnedEntities(outcome.entities, embs, ResponseEntityIds(outcome.resp), fields)

CreateReturns(fields) ==
    UNION {LET created == create_entity_with_embedding(tk, body, configured, http)
           IN  Returns(created.outcome, created.embeddings, fields) :
             tk \in TypeKeyInputs, body \in EntityBodies, configured \in BOOLEAN, http \in HttpOutcomes}

UpdateReturns(fields) ==
    UNION {Returns(update_entity(c[1], c[2], body), embeddings, fields) :
             c \in EntityCalls, body \in EntityPatches}

GetReturns(fields) ==
    UNION {Returns(get_entity(c[1], c[2]), embeddings, fields) : c \in EntityCalls}

ListReturns(fields) ==
    UNION {UNION {Returns(Kept(response), embeddings, fields) :
                    response \in list_entities(tk, MaxEntities, 0, SortCreatedAt, "asc", NoQ, <<>>)} :
             tk \in TypeKeyInputs}

NeighborReturns(fields) ==
    UNION {UNION {Returns(Kept(response), embeddings, fields) :
                    response \in get_neighbors(c[1], c[2], "both", <<>>, MaxRelations)} :
             c \in EntityCalls}

SearchReturns(fields) ==
    UNION {ReturnedEntities(entities, embeddings, SearchHits(tk), fields) :
             tk \in DOM(schema.entity_types)}

\* the request is served: the store and the vectors become those it leaves
ServeEmbedded(outcome, embs) ==
    /\ entities' = outcome.entities
    /\ relations' = outcome.relations
    /\ nextEntity' = outcome.nextEntity
    /\ nextRelation' = outcome.nextRelation
    /\ deletedIds' = outcome.deletedIds
    /\ embeddings' = embs
    /\ UNCHANGED <<schema, vpIn, vpOut, call, result>>

CreateEntityEmbedded ==
    \E tk \in TypeKeyInputs, body \in EntityBodies, configured \in BOOLEAN, http \in HttpOutcomes :
        \E created \in {create_entity_with_embedding(tk, body, configured, http)} :
            /\ created.outcome.nextEntity <= MaxEntities
            /\ ServeEmbedded(created.outcome, created.embeddings)

UpdateEntityEmbedded ==
    \E c \in EntityCalls, body \in EntityPatches :
        \E outcome \in {update_entity(c[1], c[2], body)} :
            \E returned \in {[fields \in Projections |-> Returns(outcome, embeddings, fields)]} :
                ServeEmbedded(outcome, embeddings)

ReadEmbedded ==
    \E c \in EntityCalls :
        \E response \in {get_entity(c[1], c[2]).resp}
                        \cup list_entities(c[1], MaxEntities, 0, SortCreatedAt, "asc", NoQ, <<>>)
                        \cup get_neighbors(c[1], c[2], "both", <<>>, MaxRelations) :
            \E returned \in {[fields \in Projections |-> Returns(Kept(response), embeddings, fields)]} :
                ServeEmbedded(Kept(response), embeddings)

SearchEmbedded ==
    \E returned \in {[fields \in Projections |-> SearchReturns(fields)]} : UNCHANGED vars

\* DETACH DELETE n: the vector goes with the node
DeleteEntityEmbedded ==
    \E c \in EntityCalls :
        \E outcome \in {delete_entity(c[1], c[2])} :
            ServeEmbedded(outcome, [i \in DOM(embeddings) \cap DOM(outcome.entities) |-> embeddings[i]])

NextEmbed ==
    \/ CreateEntityEmbedded \/ UpdateEntityEmbedded \/ ReadEmbedded \/ SearchEmbedded
    \/ DeleteEntityEmbedded \/ CreateRelation \/ DeleteRelation

SpecEmbed == Init /\ [][NextEmbed]_vars

ReservedLabels ==
    { <<"O", "n", "t", "o", "l", "o", "g", "y">>,
      <<"E", "n", "t", "i", "t", "y", "T", "y", "p", "e">>,
      <<"R", "e", "l", "a", "t", "i", "o", "n", "T", "y", "p", "e">>,
      <<"P", "r", "o", "p", "e", "r", "t", "y", "D", "e", "f", "i", "n", "i", "t", "i", "o", "n">>,
      <<"_", "E", "n", "t", "i", "t", "y">> }

\* C21: no entity type of the stored (and so of the loaded) schema has a
\* storage label that is one of the labels the system uses itself.
C21_NoReservedLabel ==
    \A key \in DOM(_load_schema.entity_types) : to_pascal_case(key) \notin ReservedLabels

\* ------------------------------------------------------------------------
\* Loading the schema while the modeling service changes it
\* ------------------------------------------------------------------------

KeyU == <<"u">>

\* modeling service: the key must be new and both entity types must exist
create_relation_type(key, source, target) ==
    IF key \in DOM(schema.relation_types)
    THEN SchemaOutcome("Conflict", schema)
    ELSE IF source \notin DOM(schema.entity_types) \/ target \notin DOM(schema.entity_types)
    THEN SchemaOutcome("Validation", schema)
    ELSE SchemaOutcome("ok", [schema EXCEPT !.relation_types =
                                 @ @@ (key :> [from_entity_type_key |-> source,
                                               to_entity_type_key |-> target,
                                               properties |-> EmptyMap])])

is_entity_type_referenced(key) ==
    \E rt \in DOM(schema.relation_types) :
        \/ schema.relation_types[rt].from_entity_type_key = key
        \/ schema.relation_types[rt].to_entity_type_key = key

\* modeling service: a referenced entity type is not deleted
delete_entity_type(key) ==
    IF is_entity_type_referenced(key)
    THEN SchemaOutcome("Conflict", schema)
    ELSE IF key \notin DOM(schema.entity_types)
    THEN SchemaOutcome("NotFound", schema)
    ELSE SchemaOutcome("ok", [schema EXCEPT !.entity_types =
                                 [k \in DOM(@) \ {key} |-> @[k]]])

delete_relation_type(key) ==
    IF key \notin DOM(schema.relation_types)
    THEN SchemaOutcome("NotFound", schema)
    ELSE SchemaOutcome("ok", [schema EXCEPT !.relation_types =
                                 [k \in DOM(@) \ {key} |-> @[k]]])

CreateRelationType ==
    \E key \in {KeyW, KeyU}, source \in {KeyP, KeyA_B}, target \in {KeyP, KeyA_B} :
        ModelingStep("create_relation_type", source, key, create_relation_type(key, source, target))

DeleteEntityType ==
    \E key \in {KeyA_B, KeyAB} :
        ModelingStep("delete_entity_type", key, <<>>, delete_entity_type(key))

DeleteRelationType ==
    \E key \in {KeyW, KeyU} :
        ModelingStep("delete_relation_type", <<>>, key, delete_relation_type(key))

\* get_full_schema: each session.run is a transaction of its own; the rows of
\* the entity-type query are held while the relation-type query is awaited
LoadIdle == [pc |-> "idle", entity_types |-> EmptyMap, relation_types |-> EmptyMap]

GetEntityTypes ==
    /\ result.pc # "entity_types"
    /\ result' = [pc |-> "entity_types", entity_types |-> schema.entity_types,
                  relation_types |-> EmptyMap]
    /\ UNCHANGED <<entities, relations, nextEntity, nextRelation, schema, deletedIds, vpIn,
                   vpOut, embeddings, call>>

\* the relation-type query, after which _load_schema builds the SchemaCache
\* from the rows of both queries
GetRelationTypes ==
    /\ result.pc = "entity_types"
    /\ result' = [pc |-> "loaded", entity_types |-> result.entity_types,
                  relation_types |-> schema.relation_types]
    /\ UNCHANGED <<entities, relations, nextEntity, nextRelation, schema, deletedIds, vpIn,
                   vpOut, embeddings, call>>

InitLoad ==
    /\ entities = [i \in {} |-> 0]
    /\ relations = [i \in {} |-> 0]
    /\ nextEntity = 0
    /\ nextRelation = 0
    /\ schema = Ontology
    /\ deletedIds = {}
    /\ vpIn = NoCall
    /\ vpOut = NoResult
    /\ embeddings = [i \in {} |-> 0]
    /\ call = <<>>
    /\ result = LoadIdle

NextLoad ==
    \/ GetEntityTypes
    \/ GetRelationTypes
    \/ CreateEntityType
    \/ CreateRelationType
    \/ DeleteEntityType
    \/ DeleteRelationType

SpecLoad == InitLoad /\ [][NextLoad]_vars

\* ------------------------------------------------------------------------
\* C22
\* ------------------------------------------------------------------------

\* C22: every relation type of a loaded schema names a source and a target
\* entity type that are in the same loaded schema.
C22_LoadedSchemaComplete ==
    result.pc = "loaded" =>
        \A key \in DOM(result.relation_types) :
            /\ result.relation_types[key].from_entity_type_key \in DOM(result.entity_types)
            /\ result.relation_types[key].to_entity_type_key \in DOM(result.entity_types)

\* ------------------------------------------------------------------------
\* C23
\* ------------------------------------------------------------------------

\* the handlers that await _invalidate_schema_cache after the service call:
\* the tools do, the REST routes return the service's response directly
InvalidatingHandlers == {"add_property"}

\* C23: every modeling request that changed the stored schema was served by a
\* handler that invokes schema-cache invalidation before it returns.
C23_InvalidationOnEverySurface ==
    (call # <<>> /\ call.kind = "ok") => call.op \in InvalidatingHandlers

\* ------------------------------------------------------------------------
\* create_relation step by step, while other requests are served
\* ------------------------------------------------------------------------

\* record["relation"] on the None that result.single() gives for no row
TypeError(op, id) == Response(op, "TypeError", id, NoFields, <<>>, <<>>)

PendingRelation(pc, relation_type_key, from_entity_id, to_entity_id, coerced, errors) ==
    [pc |-> pc, relation_type_key |-> relation_type_key, from_entity_id |-> from_entity_id,
     to_entity_id |-> to_entity_id, coerced |-> coerced, errors |-> errors]

\* what a step of the request leaves in the request's own frame
RelationStep(pending, response) ==
    /\ call' = pending
    /\ result' = response
    /\ UNCHANGED <<entities, nextEntity, deletedIds, schema, vpIn, vpOut, embeddings>>

\* schema lookup, validate_properties and the read of the source entity
BeginCreateRelation ==
    \E c \in RelationCreateCalls, body \in RelationBodies :
        /\ call = <<>>
        /\ nextRelation < MaxRelations
        /\ UNCHANGED <<relations, nextRelation>>
        /\ IF c[1] \notin DOM(_load_schema.relation_types)
           THEN RelationStep(<<>>, NotFoundError("create_relation", 0))
           ELSE LET rt_def == _load_schema.relation_types[c[1]]
                    v == validate_properties(body, rt_def.properties, FALSE)
                    errors == WithError(v.errors, FromEntityIdKey,
                                  EndpointError(entities, c[2], rt_def.from_entity_type_key))
                IN  RelationStep(PendingRelation("to_entity", c[1], c[2], c[3], v.coerced, errors),
                                 result)

\* the read of the target entity, and the raise when errors were collected
ReadToEntity ==
    /\ call # <<>>
    /\ call.pc = "to_entity"
    /\ UNCHANGED <<relations, nextRelation>>
    /\ LET rt_def == _load_schema.relation_types[call.relation_type_key]
           errors == WithError(call.errors, ToEntityIdKey,
                         EndpointError(entities, call.to_entity_id, rt_def.to_entity_type_key))
       IN  IF DOM(errors) # {}
           THEN RelationStep(<<>>, ValidationError("create_relation", errors))
           ELSE RelationStep([call EXCEPT !.pc = "write"], result)

\* repository.create_relation on the store as it is now
WriteRelation ==
    /\ call # <<>>
    /\ call.pc = "write"
    /\ LET relation_id == 0 - (nextRelation + 1)
           created == repo_create_relation(entities, relations, call.relation_type_key,
                          to_upper_snake_case(call.relation_type_key), relation_id,
                          call.from_entity_id, call.to_entity_id, call.coerced, Now)
       IN  /\ relations' = created
           /\ nextRelation' = nextRelation + 1
           /\ RelationStep(<<>>, IF relation_id \in DOM(created)
                                 THEN Returned("create_relation", relation_id,
                                               RelationView(created, relation_id))
                                 ELSE TypeError("create_relation", relation_id))

NextRace ==
    \/ BeginCreateRelation
    \/ ReadToEntity
    \/ WriteRelation
    \/ CreateEntity
    \/ DeleteEntity
    \/ DeleteRelation

SpecRace == Init /\ [][NextRace]_vars

\* ------------------------------------------------------------------------
\* C24
\* ------------------------------------------------------------------------

\* C24: every create_relation request that has ended has ended with a created
\* relation, a NotFound error or a Validation error.
C24_TypedOutcome ==
    result # <<>> => result.kind \in {"ok", "NotFound", "Validation"}

\* ------------------------------------------------------------------------
\* C25
\* ------------------------------------------------------------------------

\* C25: both endpoints of every stored relation are stored entities; a write
\* that found an endpoint gone stored nothing, and a relation whose endpoint
\* was deleted after the write is gone as well.
C25_NoDanglingRelation ==
    /\ \A r \in DOM(relations) :
          relations[r].from \in DOM(entities) /\ relations[r].to \in DOM(entities)
    /\ (result # <<>> /\ result.kind = "TypeError") => result.id \notin DOM(relations)

\* a write lost the race against the deletion of an endpoint and stored
\* nothing
C25_Witness ==
    /\ result # <<>>
    /\ result.kind = "TypeError"
    /\ deletedIds # {}
    /\ DOM(relations) = {}

\* ------------------------------------------------------------------------
\* C26
\* ------------------------------------------------------------------------

\* the one entry of a single-entry filter map
OnlyExpr == call.filters[1][1]
OnlyValue == call.filters[1][2]

\* C26: for a filter map of one entry whose key holds "__" and whose suffix
\* after the last "__" is no operator, the builder takes the whole key as the
\* property key: when the key is a defined property and the value coerces to
\* its type the result is the one equality fragment on that property, and
\* otherwise the request is rejected.
C26_WholeKeyEquality ==
    (/\ call # <<>> /\ call.fn = "_build_filter_clauses" /\ result # <<>>
     /\ Len(call.filters) = 1
     /\ SepPositions(OnlyExpr) # {}
     /\ ParseFilter(OnlyExpr).op_name \notin DOM(OPERATORS)) =>
        IF OnlyExpr \in DOM(call.property_defs)
        THEN LET c == coerce_value(OnlyValue, call.property_defs[OnlyExpr].data_type)
             IN  IF c.ok
                 THEN /\ result.ok
                      /\ result.where_clauses =
                            <<FilterClause("n", OnlyExpr, NoOperator, ParamName(0), c.val)>>
                 ELSE ~result.ok
        ELSE ~result.ok

\* ------------------------------------------------------------------------
\* C27
\* ------------------------------------------------------------------------

\* whether the entry names an unknown property or carries a value that cannot
\* be coerced to the property's type
InvalidEntry(filter_expr, raw_value, property_defs) ==
    LET parsed == ParseFilter(filter_expr)
    IN  \/ parsed.prop_key \notin DOM(property_defs)
        \/ /\ parsed.op_name # OpContains
           /\ ~coerce_value(raw_value, property_defs[parsed.prop_key].data_type).ok

\* the fields of the invalid entries of a filter map
OffendingFields(filters, property_defs) ==
    {ParseFilter(filters[i][1]).prop_key :
        i \in {j \in 1..Len(filters) : InvalidEntry(filters[j][1], filters[j][2], property_defs)}}

\* C27: a filter map with several invalid entries is rejected with an error
\* whose fields are those of all its invalid entries.
C27_EveryOffendingField ==
    (/\ call # <<>> /\ call.fn = "_build_filter_clauses" /\ result # <<>>
     /\ Cardinality(OffendingFields(call.filters, call.property_defs)) >= 2) =>
        /\ ~result.ok
        /\ result.fields = OffendingFields(call.filters, call.property_defs)

\* ------------------------------------------------------------------------
\* C28
\* ------------------------------------------------------------------------

\* type keys a request may name that the loaded schema does not hold
UnknownEntityTypes == TypeKeyInputs \ DOM(_load_schema.entity_types)
UnknownRelationTypes == RelTypeKeyInputs \ DOM(_load_schema.relation_types)

\* sort fields and filter maps of list requests, valid and invalid
SortInputs == {SortCreatedAt, PropN, PropZ}
ListFilterInputs ==
    {<<>>, <<<<PropN, JStr("abc")>>>>, <<<<PropZ, JStr("42")>>>>,
     <<<<PropN \o Sep \o OpBad, JStr("abc")>>>>}

OntologyCollision ==
    [Ontology EXCEPT !.entity_types =
        @ @@ (KeyA_B :> [properties |-> (PropN :> PropertyDef("string", FALSE, JNull))])]

InitCollision ==
    /\ entities = [i \in {} |-> 0]
    /\ relations = [i \in {} |-> 0]
    /\ nextEntity = 0
    /\ nextRelation = 0
    /\ schema = OntologyCollision
    /\ deletedIds = {}
    /\ vpIn = NoCall
    /\ vpOut = NoResult
    /\ embeddings = [i \in {} |-> 0]
    /\ call = <<>>
    /\ result = <<>>

SpecCollision == InitCollision /\ [][Next]_vars

\* ------------------------------------------------------------------------
\* C29
\* ------------------------------------------------------------------------

\* the stored user properties of the entity are defined by its type and not
\* null, and the required properties of its type are stored
Conforms(entity, property_defs) ==
    /\ DOM(entity.props) \subseteq DOM(property_defs)
    /\ \A k \in DOM(entity.props) : entity.props[k] # JNull
    /\ \A k \in DOM(property_defs) : property_defs[k].required => k \in DOM(entity.props)

\* C29: every stored entity conforms to the type its own type key names.
C29_StoredEntitiesConform ==
    \A i \in DOM(entities) :
        Conforms(entities[i], schema.entity_types[entities[i].typeKey].properties)

\* ------------------------------------------------------------------------
\* Schema import
\* ------------------------------------------------------------------------

LowerLetters ==
    {"a", "b", "c", "d", "e", "f", "g", "h", "i", "j", "k", "l", "m", "n", "o", "p", "q",
     "r", "s", "t", "u", "v", "w", "x", "y", "z"}
Digits == {"0", "1", "2", "3", "4", "5", "6", "7", "8", "9"}

\* re.match(KEY_PATTERN, key) with KEY_PATTERN = ^[a-z][a-z0-9_]*$
MatchesKeyPattern(key) ==
    /\ Len(key) >= 1
    /\ key[1] \in LowerLetters
    /\ \A i \in 2..Len(key) : key[i] \in LowerLetters \cup Digits \cup {"_"}

\* "P q) DETACH DELETE (m": a key of an import payload; ExportEntityType.key,
\* ExportRelationType.key and ExportProperty.key are plain strings
KeyUnsafe == <<"P", " ", "q", ")", " ", "D", "E", "T", "A", "C", "H", " ", "D", "E", "L", "E", "T", "E", " ", "(", "m">>

\* payloads of POST /import: ExportPayload documents of the modeling service
ImportPayloads ==
    {Ontology,
     [entity_types |-> (KeyP :> [properties |-> EmptyMap]), relation_types |-> EmptyMap],
     [entity_types |-> (KeyP :> [properties |-> (KeyUnsafe :> PropertyDef("string", FALSE, JNull))]),
      relation_types |-> EmptyMap],
     [entity_types |-> (KeyUnsafe :> [properties |-> EmptyMap]),
      relation_types |-> (KeyUnsafe :> [from_entity_type_key |-> KeyUnsafe,
                                        to_entity_type_key |-> KeyUnsafe,
                                        properties |-> EmptyMap])],
     [entity_types |-> (KeyP :> [properties |-> EmptyMap]),
      relation_types |-> (KeyU :> [from_entity_type_key |-> KeyP, to_entity_type_key |-> KeyAB,
                                   properties |-> EmptyMap])]}

\* whether every relation type of the payload names entity types of the payload
EndpointsListed(payload) ==
    \A rt \in DOM(payload.relation_types) :
        /\ payload.relation_types[rt].from_entity_type_key \in DOM(payload.entity_types)
        /\ payload.relation_types[rt].to_entity_type_key \in DOM(payload.entity_types)

\* modeling service: the stored ontology is replaced by the payload's; the
\* entity types are written before a relation type with an unlisted endpoint
\* ends the import
import_ontology(payload, overwrite) ==
    IF ~overwrite THEN SchemaOutcome("Conflict", schema)
    ELSE IF ~EndpointsListed(payload)
    THEN SchemaOutcome("Validation", [entity_types |-> payload.entity_types,
                                      relation_types |-> EmptyMap])
    ELSE SchemaOutcome("ok", payload)

ImportOntology ==
    \E payload \in ImportPayloads, overwrite \in BOOLEAN :
        ModelingStep("import_ontology", <<>>, <<>>, import_ontology(payload, overwrite))

NextImport ==
    \/ ImportOntology
    \/ CreateEntityType
    \/ CreateRelationType
    \/ DeleteRelationType

SpecImport == InitLoad /\ [][NextImport]_vars

\* ------------------------------------------------------------------------
\* C30
\* ------------------------------------------------------------------------

\* the entity type, relation type and property keys of a schema
SchemaKeys(s) ==
    DOM(s.entity_types) \cup DOM(s.relation_types)
    \cup UNION {DOM(s.entity_types[k].properties) : k \in DOM(s.entity_types)}
    \cup UNION {DOM(s.relation_types[k].properties) : k \in DOM(s.relation_types)}

\* C30: every entity type key, relation type key and property key of the
\* stored schema matches ^[a-z][a-z0-9_]*$.
C30_KeysMatchPattern ==
    \A key \in SchemaKeys(schema) : MatchesKeyPattern(key)


====
